---- MODULE Spec2Model ----
(***************************************************************************)
(* The route planner of the backend: RoutingService (the Haversine         *)
(* distance estimator, the duration estimator, the nearest-neighbour       *)
(* waypoint optimizer) and the two RoutesController handlers that call it. *)
(*                                                                         *)
(* Numbers.  The service computes in IEEE-754 doubles.  The model computes *)
(* in a binary floating-point arithmetic of the same shape and a narrower  *)
(* mantissa: a number is m * 2^e, every operation is rounded to the        *)
(* nearest representable value (ties to even), and NaN and Infinity are    *)
(* values of their own that propagate as they do in IEEE-754.  Coordinates *)
(* are written as integers, in 1/CoordUnit degrees.                        *)
(***************************************************************************)
EXTENDS Integers, Sequences, FiniteSets, TLC

\* ------------------------------------------------------------------------
\* Bounds of the model
\* ------------------------------------------------------------------------
\* the longest waypoint array enumerated exhaustively
MaxWaypoints == 2
\* the number of callers that can wait on a promise while a call runs
MaxPending == 1

\* ------------------------------------------------------------------------
\* Floating-point arithmetic
\* ------------------------------------------------------------------------
\* width of the mantissa, in bits
Precision == 15

\* a number m * 2^e, m = 0 or 2^(Precision-1) <= |m| < 2^Precision
Float(m, e) == [k |-> "num", m |-> m, e |-> e]
NaN == [k |-> "nan", m |-> 0, e |-> 0]
Infinity == [k |-> "inf", m |-> 1, e |-> 0]
Zero == Float(0, 0)

IsNaN(x) == x.k = "nan"

Abs(x) == IF x < 0 THEN -x ELSE x
Sgn(x) == IF x < 0 THEN -1 ELSE 1

RECURSIVE BitLength(_)
BitLength(n) == IF n = 0 THEN 0 ELSE 1 + BitLength(n \div 2)

\* n / 2^s for n >= 0 and s >= 1, rounded to nearest, ties to even
ShiftRight(n, s) ==
    LET q == n \div (2 ^ s)
        r == n - q * (2 ^ s)
        h == 2 ^ (s - 1)
    IN  IF r > h \/ (r = h /\ q % 2 = 1) THEN q + 1 ELSE q

\* sign * m * 2^e for a rounded mantissa m, which may have carried over
Carry(sign, m, e) ==
    IF m = 2 ^ Precision THEN Float(sign * (2 ^ (Precision - 1)), e + 1)
    ELSE Float(sign * m, e)

\* sign * a * 2^e for a > 0 of l bits, brought to Precision bits
RoundTo(sign, a, l, e) ==
    IF l > Precision
    THEN Carry(sign, ShiftRight(a, l - Precision), e + (l - Precision))
    ELSE Float(sign * a * (2 ^ (Precision - l)), e - (Precision - l))

\* the Float nearest to n * 2^e, for an integer n
Normalize(n, e) ==
    IF n = 0 THEN Zero ELSE RoundTo(Sgn(n), Abs(n), BitLength(Abs(n)), e)

\* the double of an integer literal
Num(n) == Normalize(n, 0)

\* -x
FNeg(x) == IF IsNaN(x) THEN NaN ELSE Float(-x.m, x.e)

\* |x|
FAbs(x) == IF IsNaN(x) THEN NaN ELSE Float(Abs(x.m), x.e)

\* x * y
FMul(x, y) ==
    IF IsNaN(x) \/ IsNaN(y) THEN NaN
    ELSE Normalize(x.m * y.m, x.e + y.e)

\* x + y; an addend below half a unit in the last place of the other is lost
FAdd(x, y) ==
    IF IsNaN(x) \/ IsNaN(y) THEN NaN
    ELSE IF x.m = 0 THEN y
    ELSE IF y.m = 0 THEN x
    ELSE LET hi == IF x.e >= y.e THEN x ELSE y
             lo == IF x.e >= y.e THEN y ELSE x
             d  == hi.e - lo.e
         IN  IF d > Precision THEN hi
             ELSE Normalize(hi.m * (2 ^ d) + lo.m, lo.e)

\* x - y
FSub(x, y) == FAdd(x, FNeg(y))

\* x / y for y # 0; the remainder is kept as a sticky bit for the rounding
FDiv(x, y) ==
    IF IsNaN(x) \/ IsNaN(y) THEN NaN
    ELSE IF x.m = 0 THEN Zero
    ELSE LET n == Abs(x.m) * (2 ^ Precision)
             d == Abs(y.m)
             q == n \div d
             s == IF q * d = n THEN 0 ELSE 1
         IN  Normalize(Sgn(x.m) * Sgn(y.m) * (2 * q + s),
                       x.e - y.e - Precision - 1)

\* the comparison x < y: false as soon as one side is NaN
FLess(x, y) ==
    /\ ~IsNaN(x)
    /\ ~IsNaN(y)
    /\ x.k # "inf"
    /\ (y.k = "inf" \/ FSub(x, y).m < 0)

\* the comparison x <= y: false as soon as one side is NaN
FLessEq(x, y) == ~IsNaN(x) /\ ~IsNaN(y) /\ (x = y \/ FLess(x, y))

RECURSIVE ISqrtSearch(_, _, _)
ISqrtSearch(n, lo, hi) ==
    IF lo >= hi THEN lo
    ELSE LET mid == (lo + hi + 1) \div 2
         IN  IF mid * mid <= n THEN ISqrtSearch(n, mid, hi)
             ELSE ISqrtSearch(n, lo, mid - 1)

\* the root r of n with a sticky bit for its remainder, times 2^(e/2)
StickyRoot(n, r, e) ==
    Normalize(2 * r + (IF r * r = n THEN 0 ELSE 1),
              (e - (Precision - 1)) \div 2 - 1)

\* the square root of m * 2^e for an even e
EvenRoot(m, e) ==
    StickyRoot(m * (2 ^ (Precision - 1)),
               ISqrtSearch(m * (2 ^ (Precision - 1)), 0, 2 ^ Precision), e)

\* Math.sqrt: NaN for a negative or NaN argument, else the nearest root
MathSqrt(x) ==
    IF IsNaN(x) \/ x.m < 0 THEN NaN
    ELSE IF x.m = 0 THEN Zero
    ELSE IF x.e % 2 # 0 THEN EvenRoot(2 * x.m, x.e - 1)
    ELSE EvenRoot(x.m, x.e)

\* Math.PI and Math.PI / 2
MathPI == Float(25736, -13)
HalfPI == Float(25736, -14)
One == Num(1)
Two == Num(2)

\* toRadians(degrees) = degrees * (Math.PI / 180)
toRadians(degrees) == FMul(degrees, FDiv(MathPI, Num(180)))

\* x / 2
Half(x) == FDiv(x, Two)

RECURSIVE SinSeries(_, _, _, _, _)
SinSeries(term, x2, k, sign, acc) ==
    IF k > 10 THEN acc
    ELSE LET t == FDiv(FMul(term, x2), Num(k * (k + 1)))
         IN  SinSeries(t, x2, k + 2, -sign,
                       FAdd(acc, IF sign > 0 THEN t ELSE FNeg(t)))

RECURSIVE CosSeries(_, _, _, _, _)
CosSeries(term, x2, k, sign, acc) ==
    IF k > 12 THEN acc
    ELSE LET t == FDiv(FMul(term, x2), Num(k * (k - 1)))
         IN  CosSeries(t, x2, k + 2, -sign,
                       FAdd(acc, IF sign > 0 THEN t ELSE FNeg(t)))

\* ax >= 0 brought into [0, pi/2] by ax -> pi - ax
Reduce(ax) == IF FLess(HalfPI, ax) THEN FAbs(FSub(MathPI, ax)) ELSE ax

\* sin r for 0 <= r <= pi/2
Sin01(r) == SinSeries(r, FMul(r, r), 2, -1, r)

\* cos r for 0 <= r <= pi/2
Cos01(r) == CosSeries(One, FMul(r, r), 2, -1, One)

\* Math.sin for -pi <= x <= pi: odd, reduced to [0, pi/2]
MathSin(x) ==
    IF x.m < 0 THEN FNeg(Sin01(Reduce(FAbs(x))))
    ELSE Sin01(Reduce(FAbs(x)))

\* Math.cos for -pi <= x <= pi: even, reduced to [0, pi/2]
MathCos(x) ==
    IF FLess(HalfPI, FAbs(x)) THEN FNeg(Cos01(Reduce(FAbs(x))))
    ELSE Cos01(Reduce(FAbs(x)))

RECURSIVE AtanSeries(_, _, _, _, _)
AtanSeries(term, t2, k, sign, acc) ==
    IF k > 11 THEN acc
    ELSE LET t == FMul(term, t2)
             q == FDiv(t, Num(k))
         IN  AtanSeries(t, t2, k + 2, -sign,
                        FAdd(acc, IF sign > 0 THEN q ELSE FNeg(q)))

\* atan(t) for 0 <= t <= 1, by atan(t) = 2 atan(t / (1 + sqrt(1 + t^2)))
AtanHalved(u) == FMul(Two, AtanSeries(u, FMul(u, u), 3, -1, u))
Atan01(t) == AtanHalved(FDiv(t, FAdd(One, MathSqrt(FAdd(One, FMul(t, t))))))

\* Math.atan2(y, x) for y >= 0 and x >= 0; NaN if an argument is NaN
MathAtan2(y, x) ==
    IF IsNaN(y) \/ IsNaN(x) THEN NaN
    ELSE IF y.m = 0 THEN Zero
    ELSE IF x.m = 0 THEN HalfPI
    ELSE IF ~FLess(x, y) THEN Atan01(FDiv(y, x))
    ELSE FSub(HalfPI, Atan01(FDiv(x, y)))

\* Math.round(x) = floor(x + 0.5)
MathRound(x) ==
    IF IsNaN(x) THEN NaN
    ELSE IF x.e >= 0 THEN x
    ELSE IF -x.e > Precision + 1 THEN Zero
    ELSE Normalize((x.m + 2 ^ (-x.e - 1)) \div (2 ^ (-x.e)), 0)

\* ------------------------------------------------------------------------
\* Inputs
\* ------------------------------------------------------------------------
\* a coordinate of d degrees is written d * CoordUnit
CoordUnit == 10000

Coord(la, ln) == [lat |-> la, lng |-> ln]

\* the double of a coordinate component
Degrees(n) == FDiv(Num(n), Num(CoordUnit))

\* valid coordinates: a point of the equator, the points a quarter turn east
\* and west of it, and a pair of antipodes
PointSeq ==
    << Coord(0, 0), Coord(0, 90 * CoordUnit), Coord(0, -90 * CoordUnit),
       Coord(8 * CoordUnit, 0), Coord(-8 * CoordUnit, 180 * CoordUnit) >>

Points == { PointSeq[k] : k \in 1..Len(PointSeq) }

Modes == { "walking", "cycling", "driving" }

\* the waypoint arrays enumerated exhaustively, the too short ones included
WaypointLists == UNION { [1..n -> Points] : n \in 0..MaxWaypoints }

\* one array of every greater length, up to one more than the controller admits
LongList(n) == [k \in 1..n |-> PointSeq[((k - 1) % Len(PointSeq)) + 1]]
LongLists == { LongList(n) : n \in 3..11 }

\* three places of the campus
CampusWaypoints ==
    << Coord(347270, -790187), Coord(347265, -790175),
       Coord(347275, -790180) >>

\* the arrays optimizeRoute is called with; in the last one both candidates
\* of the first iteration are antipodal to the current waypoint
CallLists ==
    WaypointLists \cup LongLists
      \cup { CampusWaypoints, << PointSeq[4], PointSeq[5], PointSeq[5] >> }

\* a variable, a field or a parameter that holds undefined
Undefined == "undefined"

\* a promise that is not settled
NoResult == [kind |-> "none"]

\* waypoints[k] of the 0-based JavaScript array
At(waypoints, k) == waypoints[k + 1]

\* ------------------------------------------------------------------------
\* Distance and duration estimator
\* ------------------------------------------------------------------------
EarthRadius == 6371

\* a = sin^2(dLat/2) + cos(lat1) * cos(lat2) * sin(dLng/2) * sin(dLng/2)
Haversine(sLat, sLng, cos1, cos2) ==
    FAdd(FMul(sLat, sLat), FMul(FMul(FMul(cos1, cos2), sLng), sLng))

\* R * c for c = 2 * atan2(sqrt(a), sqrt(1 - a))
CentralAngleKm(a) ==
    FMul(Num(EarthRadius),
         FMul(Two, MathAtan2(MathSqrt(a), MathSqrt(FSub(One, a)))))

\* calculateDistance without the longitudes
calculateDistanceNoLongitude(coord1, coord2) ==
    CentralAngleKm(Haversine(
        MathSin(Half(toRadians(Degrees(coord2.lat - coord1.lat)))),
        Zero,
        MathCos(toRadians(Degrees(coord1.lat))),
        MathCos(toRadians(Degrees(coord2.lat)))))

\* calculateDistance with the latitudes added where they are subtracted
calculateDistanceLatSum(coord1, coord2) ==
    CentralAngleKm(Haversine(
        MathSin(Half(toRadians(Degrees(coord2.lat + coord1.lat)))),
        MathSin(Half(toRadians(Degrees(coord2.lng - coord1.lng)))),
        MathCos(toRadians(Degrees(coord1.lat))),
        MathCos(toRadians(Degrees(coord2.lat)))))

\* calculateDistance with the cosine of coord1.lat taken twice
calculateDistanceCosTwice(coord1, coord2) ==
    CentralAngleKm(Haversine(
        MathSin(Half(toRadians(Degrees(coord2.lat - coord1.lat)))),
        MathSin(Half(toRadians(Degrees(coord2.lng - coord1.lng)))),
        MathCos(toRadians(Degrees(coord1.lat))),
        MathCos(toRadians(Degrees(coord1.lat)))))

\* calculateDistance(coord1, coord2): Haversine distance in kilometres
calculateDistance(coord1, coord2) ==
    CentralAngleKm(Haversine(
        MathSin(Half(toRadians(Degrees(coord2.lat - coord1.lat)))),
        MathSin(Half(toRadians(Degrees(coord2.lng - coord1.lng)))),
        MathCos(toRadians(Degrees(coord1.lat))),
        MathCos(toRadians(Degrees(coord2.lat)))))

speeds == [walking |-> 5, cycling |-> 15, driving |-> 30]

\* distance / speeds[mode]: hours
HoursOf(distance, speed) == FDiv(distance, Num(speed))

\* estimateDuration(origin, destination, mode): seconds
estimateDuration(origin, destination, mode) ==
    MathRound(FMul(HoursOf(calculateDistance(origin, destination),
                           speeds[mode]), Num(3600)))

\* calculateDistance(from, to) * 1000: metres
ToMeters(distance) == FMul(distance, Num(1000))

\* ------------------------------------------------------------------------
\* Nearest-neighbour scan
\* ------------------------------------------------------------------------
\* the scan keeping the farthest candidate
RECURSIVE ScanUnvisitedFarthest(_, _, _, _, _, _)
ScanUnvisitedFarthest(waypoints, current, unvisited, index, nearest, nearestDistance) ==
    IF index >= Len(unvisited) THEN nearest
    ELSE LET waypointIndex == unvisited[index + 1]
             distance == calculateDistance(At(waypoints, current),
                                           At(waypoints, waypointIndex))
         IN  IF index = 0 \/ FLess(nearestDistance, distance)
             THEN ScanUnvisitedFarthest(waypoints, current, unvisited,
                                        index + 1, index, distance)
             ELSE ScanUnvisitedFarthest(waypoints, current, unvisited,
                                        index + 1, nearest, nearestDistance)

\* the scan with <= for <: the last of several equidistant candidates wins
RECURSIVE ScanUnvisitedLastTie(_, _, _, _, _, _)
ScanUnvisitedLastTie(waypoints, current, unvisited, index, nearest, nearestDistance) ==
    IF index >= Len(unvisited) THEN nearest
    ELSE LET waypointIndex == unvisited[index + 1]
             distance == calculateDistance(At(waypoints, current),
                                           At(waypoints, waypointIndex))
         IN  IF FLessEq(distance, nearestDistance)
             THEN ScanUnvisitedLastTie(waypoints, current, unvisited,
                                       index + 1, index, distance)
             ELSE ScanUnvisitedLastTie(waypoints, current, unvisited,
                                       index + 1, nearest, nearestDistance)

\* the scan with !(nearestDistance <= distance) for distance <
\* nearestDistance: a candidate at a NaN distance replaces the one kept
RECURSIVE ScanUnvisitedNaNLast(_, _, _, _, _, _)
ScanUnvisitedNaNLast(waypoints, current, unvisited, index, nearest, nearestDistance) ==
    IF index >= Len(unvisited) THEN nearest
    ELSE LET waypointIndex == unvisited[index + 1]
             distance == calculateDistance(At(waypoints, current),
                                           At(waypoints, waypointIndex))
         IN  IF ~FLessEq(nearestDistance, distance)
             THEN ScanUnvisitedNaNLast(waypoints, current, unvisited,
                                       index + 1, index, distance)
             ELSE ScanUnvisitedNaNLast(waypoints, current, unvisited,
                                       index + 1, nearest, nearestDistance)

\* the forEach of one while iteration: nearest after the elements of
\* unvisited from position index (0-based) on were seen
RECURSIVE ScanUnvisited(_, _, _, _, _, _)
ScanUnvisited(waypoints, current, unvisited, index, nearest, nearestDistance) ==
    IF index >= Len(unvisited) THEN nearest
    ELSE LET waypointIndex == unvisited[index + 1]
             distance == calculateDistance(At(waypoints, current),
                                           At(waypoints, waypointIndex))
         IN  IF FLess(distance, nearestDistance)
             THEN ScanUnvisited(waypoints, current, unvisited, index + 1,
                                index, distance)
             ELSE ScanUnvisited(waypoints, current, unvisited, index + 1,
                                nearest, nearestDistance)

\* a splice that drops the last element whatever nearest is
SpliceLast(unvisited, nearest) ==
    [k \in 1..(Len(unvisited) - 1) |-> unvisited[k]]

\* a removal that moves the last element into position nearest
SpliceSwap(unvisited, nearest) ==
    [k \in 1..(Len(unvisited) - 1) |->
        IF k = nearest + 1 THEN unvisited[Len(unvisited)] ELSE unvisited[k]]

\* unvisited.splice(nearest, 1): the array without position nearest (0-based)
Splice(unvisited, nearest) ==
    [k \in 1..(Len(unvisited) - 1) |->
        IF k <= nearest THEN unvisited[k] ELSE unvisited[k + 1]]

\* the distance between waypoints a and b (0-based) of the array w
DistAt(w, a, b) == calculateDistance(At(w, a), At(w, b))

\* the metres of the first k waypoints visited in the given order, added as
\* optimizeRoute adds them
RECURSIVE RouteLength(_, _, _)
RouteLength(w, order, k) ==
    IF k <= 1 THEN Zero
    ELSE FAdd(RouteLength(w, order, k - 1),
              ToMeters(DistAt(w, order[k - 1], order[k])))

\* the visiting orders of n waypoints that start at index 0
StartingOrders(n) ==
    { o \in [1..n -> 0..(n - 1)] :
        /\ o[1] = 0
        /\ \A a \in 1..n, b \in 1..n : a # b => o[a] # o[b] }

\* an order no other order is shorter than, for up to 4 waypoints
ShortestOrder(w, r) ==
    IF Len(w) > 4 THEN r
    ELSE CHOOSE o \in StartingOrders(Len(w)) :
             \A p \in StartingOrders(Len(w)) :
                 ~FLess(RouteLength(w, p, Len(w)), RouteLength(w, o, Len(w)))

\* ------------------------------------------------------------------------
\* Request bodies
\* ------------------------------------------------------------------------
\* a JavaScript value where a number is expected: its typeof, and what
\* ToNumber makes of it, NaN or value/CoordUnit
JsNumber(n) == [type |-> "number", value |-> n, nan |-> FALSE]
JsNaN == [type |-> "number", value |-> 0, nan |-> TRUE]
\* the string that spells the number n/CoordUnit, and a string that spells none
JsNumeral(n) == [type |-> "string", value |-> n, nan |-> FALSE]
JsString == [type |-> "string", value |-> 0, nan |-> TRUE]
JsUndefined == [type |-> "undefined", value |-> 0, nan |-> TRUE]

\* a JSON object with lat and lng, null, or no value at all
JsObject(la, ln) == [type |-> "object", lat |-> la, lng |-> ln]
JsPoint(c) == JsObject(JsNumber(c.lat), JsNumber(c.lng))
JsNull == [type |-> "null", lat |-> JsUndefined, lng |-> JsUndefined]
JsNoObject == [type |-> "undefined", lat |-> JsUndefined, lng |-> JsUndefined]

\* a JSON array, or a value that is none
JsArray(items) == [type |-> "array", items |-> items]
JsNoArray(type) == [type |-> type, items |-> << >>]
JsPoints(w) == JsArray([k \in 1..Len(w) |-> JsPoint(w[k])])

\* the Coordinates object a validated JSON object is
ToCoordinates(p) == Coord(p.lat.value, p.lng.value)
ToCoordinateList(items) == [k \in 1..Len(items) |-> ToCoordinates(items[k])]

\* objects that isValidCoordinates must refuse: out of range by one degree
\* or by one unit, a latitude that is a string or the string of a number in
\* range, a longitude that is missing
BadObjects ==
    { JsObject(JsNumber(91 * CoordUnit), JsNumber(0)),
      JsObject(JsNumber(0), JsNumber(180 * CoordUnit + 1)),
      JsObject(JsNumber(-90 * CoordUnit - 1), JsNumber(0)),
      JsObject(JsNumber(0), JsNumber(-181 * CoordUnit)),
      JsObject(JsString, JsNumber(0)),
      JsObject(JsNumeral(45 * CoordUnit), JsNumber(0)),
      JsObject(JsNumber(0), JsUndefined) }

\* objects on the edges of the valid range
EdgeObjects ==
    { JsObject(JsNumber(90 * CoordUnit), JsNumber(180 * CoordUnit)),
      JsObject(JsNumber(-90 * CoordUnit), JsNumber(-180 * CoordUnit)) }

\* the mode of a body: a valid one, none, or one the service does not know
RequestModes == Modes \cup { Undefined, "flying" }

\* the waypoints of a body: arrays of 0 to 11 valid points, arrays with an
\* invalid or a null element first or last, an array with two invalid
\* elements, and values that are no array
RequestWaypoints ==
    { JsPoints(LongList(n)) : n \in { 1, 2, 3, 10, 11 } }
      \cup { JsPoints(<< >>), JsPoints(<< PointSeq[4], PointSeq[5] >>),
             JsNoArray("undefined"), JsNoArray("string") }
      \cup { JsArray(<< b, JsPoint(PointSeq[1]) >>) : b \in BadObjects }
      \cup { JsArray(<< JsPoint(PointSeq[1]), JsPoint(PointSeq[2]), b >>) :
                 b \in BadObjects \cup EdgeObjects \cup { JsNull } }
      \cup { JsArray(<< JsPoint(PointSeq[1]),
                        JsObject(JsNumber(91 * CoordUnit), JsNumber(0)),
                        JsObject(JsString, JsNumber(0)) >>) }

\* the origin or the destination of a body
RequestPlaces ==
    { JsPoint(PointSeq[1]), JsPoint(PointSeq[4]), JsPoint(PointSeq[5]),
      JsNoObject, JsNull } \cup BadObjects

OptimizeRouteBodies ==
    { [waypoints |-> w, origin |-> JsNoObject, destination |-> JsNoObject,
       mode |-> m, accessibility |-> Undefined] :
          w \in RequestWaypoints, m \in RequestModes }

DirectionsBodies ==
    { [waypoints |-> JsNoArray("undefined"), origin |-> o,
       destination |-> d, mode |-> m, accessibility |-> a] :
          o \in RequestPlaces, d \in RequestPlaces, m \in RequestModes,
          a \in { Undefined, "true" } }

\* ------------------------------------------------------------------------
\* ValidationUtils
\* ------------------------------------------------------------------------
\* a validator that tests the latitude against the longitude's range
isValidCoordinatesWide(lat, lng) ==
    /\ lat.type = "number"
    /\ lng.type = "number"
    /\ lat.value >= -180 * CoordUnit
    /\ lat.value <= 180 * CoordUnit
    /\ lng.value >= -180 * CoordUnit
    /\ lng.value <= 180 * CoordUnit

\* x >= bound and x <= bound for a bound of bound/CoordUnit: the operand is
\* converted with ToNumber, and a comparison with NaN is false
JsGreaterEq(x, bound) == ~x.nan /\ x.value >= bound
JsLessEq(x, bound) == ~x.nan /\ x.value <= bound

\* a validator without the two typeof tests
isValidCoordinatesUntyped(lat, lng) ==
    /\ JsGreaterEq(lat, -90 * CoordUnit)
    /\ JsLessEq(lat, 90 * CoordUnit)
    /\ JsGreaterEq(lng, -180 * CoordUnit)
    /\ JsLessEq(lng, 180 * CoordUnit)
    /\ ~lat.nan
    /\ ~lng.nan

\* isValidCoordinates(lat, lng): two typeof tests, four comparisons and
\* !isNaN(lat), !isNaN(lng)
isValidCoordinates(lat, lng) ==
    /\ lat.type = "number"
    /\ lng.type = "number"
    /\ JsGreaterEq(lat, -90 * CoordUnit)
    /\ JsLessEq(lat, 90 * CoordUnit)
    /\ JsGreaterEq(lng, -180 * CoordUnit)
    /\ JsLessEq(lng, 180 * CoordUnit)
    /\ ~lat.nan
    /\ ~lng.nan

\* isValidRouteMode(mode)
isValidRouteMode(m) == m \in { "walking", "driving", "cycling" }

\* const { mode = "walking" } = req.body
ModeOf(body) == IF body.mode = Undefined THEN "walking" ELSE body.mode

\* const { accessibility = false } = req.body
AccessibilityOf(body) ==
    IF body.accessibility = Undefined THEN FALSE
    ELSE body.accessibility = "true"

\* res.status(400).json({ message, error })
BadRequest(error, index) ==
    [status |-> 400, error |-> error, waypoint |-> index, route |-> NoResult]

\* the catch block: res.status(500).json({ message, error })
ServerError(error) ==
    [status |-> 500, error |-> error, waypoint |-> -1, route |-> NoResult]

\* res.json({ route })
Ok(route) ==
    [status |-> 200, error |-> "none", waypoint |-> -1, route |-> route]
\* ------------------------------------------------------------------------
\* Tokens, users and responses of the middlewares
\* ------------------------------------------------------------------------
\* a token as jwt.verify finds it under the secret in use, with the user id
\* of its payload; the empty string is no token
NoToken == [kind |-> "empty", id |-> 0]
Tokens ==
    { [kind |-> k, id |-> id] :
          k \in { "valid", "expired", "notBefore", "wrongSignature",
                  "malformed" },
          id \in { 1, 2 } }

\* an Authorization header: the string scheme + rest, where scheme is
\* "Bearer " or nothing
Headers ==
    { [present |-> FALSE, scheme |-> "", rest |-> NoToken] }
      \cup { [present |-> TRUE, scheme |-> s, rest |-> t] :
                 s \in { "", "Bearer " }, t \in Tokens \cup { NoToken } }

\* !authHeader: undefined, or the empty string
IsFalsyHeader(h) == ~h.present \/ (h.scheme = "" /\ h.rest = NoToken)

\* authHeader.startsWith("Bearer ") ? authHeader.slice(7) : authHeader
TokenOf(h) == h.rest

\* the error classes thrown in authenticate and the class each extends;
\* jsonwebtoken derives TokenExpiredError and NotBeforeError from
\* JsonWebTokenError
Superclass ==
    [TokenExpiredError |-> "JsonWebTokenError",
     NotBeforeError |-> "JsonWebTokenError",
     JsonWebTokenError |-> "Error",
     DatabaseError |-> "Error",
     Error |-> "Object"]

\* error instanceof class
RECURSIVE InstanceOf(_, _)
InstanceOf(error, class) ==
    \/ error = class
    \/ (error \in DOMAIN Superclass /\ InstanceOf(Superclass[error], class))

NoPayload == [id |-> 0]

\* jwt.verify(token, jwtSecret): the payload, or the error it throws
JwtVerify(token) ==
    CASE token.kind = "valid" ->
            [threw |-> "none", payload |-> [id |-> token.id]]
      [] token.kind = "expired" ->
            [threw |-> "TokenExpiredError", payload |-> NoPayload]
      [] token.kind = "notBefore" ->
            [threw |-> "NotBeforeError", payload |-> NoPayload]
      [] OTHER -> [threw |-> "JsonWebTokenError", payload |-> NoPayload]

\* the roles of the users table
Roles == { "student", "faculty", "staff", "visitor", "admin" }

\* what pool.query can give for SELECT ... WHERE id = $1: an error, no row,
\* or the row of that id
QueryResults(id) ==
    { [error |-> TRUE, rows |-> << >>], [error |-> FALSE, rows |-> << >>] }
      \cup { [error |-> FALSE,
              rows |-> << [id |-> id, role |-> r, is_active |-> a] >>] :
                 r \in Roles, a \in BOOLEAN }

\* req.user: absent, or the user authenticate has set
NoUser == [id |-> 0, role |-> "none"]
UserOf(row) == [id |-> row.id, role |-> row.role]

\* res.status(status).json({ message, error }), and res.json({ route })
Reply(status, error) ==
    [status |-> status, error |-> error, waypoint |-> -1, route |-> NoResult]


\* ------------------------------------------------------------------------
\* State
\* ------------------------------------------------------------------------
VARIABLES
    mapboxApiKey,       \* RoutingService: field set by the constructor
    googleMapsApiKey,   \* RoutingService: field set by the constructor
    pc,             \* where the service is: idle, nn, seg, done, thrown
    op,             \* the operation in progress or just finished
    waypoints,      \* optimizeRoute: the waypoints argument
    origin,         \* calculateRoute: the origin argument
    destination,    \* calculateRoute: the destination argument
    accessibility,  \* calculateRoute: the accessibility argument
    mode,           \* the mode argument
    unvisited,      \* nearestNeighborOptimization: indices not yet in route
    route,          \* nearestNeighborOptimization: the order built so far
    optimizedOrder, \* optimizeRoute: the order returned by the optimizer
    i,              \* optimizeRoute: the segment loop counter
    segments,       \* optimizeRoute: the segments pushed so far
    totalDistance,  \* optimizeRoute: running total, metres
    totalDuration,  \* optimizeRoute: running total, seconds
    result,         \* the value returned, or the error thrown
    iterations,         \* while iterations of nearestNeighborOptimization
    orderingEvaluations,\* calculateDistance calls of the ordering loop
    segmentEvaluations, \* calculateDistance calls of the segment loop
    handler,        \* RoutesController: the handler serving the request
    cpc,            \* RoutesController: where the handler is
    request,        \* RoutesController: req.body
    checkIndex,     \* RoutesController.optimizeRoute: the validation loop i
    checks,         \* RoutesController: the checks the request has passed
    invoked,        \* RoutesController: the service was called for the request
    response,       \* RoutesController: what res was given
    pending,        \* promises returned by the service and not yet consumed
    delivered,      \* the promise value a caller's continuation last received
    validated,      \* ValidationUtils: the last isValidCoordinates call
    mwpc,           \* middleware chain: where the request in flight is
    authHeader,     \* authenticate: req.header("Authorization")
    jwtSecret,      \* authenticate: process.env.JWT_SECRET as read
    decoded,        \* authenticate: the payload jwt.verify returned
    userResult,     \* authenticate: what the users query returned
    reqUser,        \* req.user
    allowedRoles,   \* authorize: the roles the middleware was made for
    routeRequest,   \* POST /api/routes/optimize: req.body
    sent,           \* the responses written to res for the request
    nextBy          \* the middlewares that called next() for the request

\* the fields of the service instance
instanceVars == << mapboxApiKey, googleMapsApiKey >>

\* the arguments and locals of the service call in progress
frameVars == << pc, op, waypoints, origin, destination, accessibility, mode,
                unvisited, route, optimizedOrder, i, segments, totalDistance,
                totalDuration, result >>

\* the counts of loop iterations and of calculateDistance calls
countVars == << iterations, orderingEvaluations, segmentEvaluations >>

\* the locals of the controller's handler
controllerVars == << handler, cpc, request, checkIndex, checks, invoked,
                     response >>

\* the callers that are waiting on a promise of the service
callerVars == << pending, delivered >>

\* the request that passes through the middlewares and the route handlers,
\* and the last call of the coordinate validator
middlewareVars == << validated, mwpc, authHeader, jwtSecret, decoded,
                     userResult, reqUser, allowedRoles, routeRequest, sent,
                     nextBy >>

vars == << instanceVars, frameVars, countVars, controllerVars, callerVars,
           middlewareVars >>

NoResponse ==
    [status |-> 0, error |-> "none", waypoint |-> -1, route |-> NoResult]

NoPoint == Coord(0, 0)

\* req.body before a request has arrived
NoRequest ==
    [waypoints |-> JsNoArray("undefined"), origin |-> JsNoObject,
     destination |-> JsNoObject, mode |-> Undefined,
     accessibility |-> Undefined]

NoCall == [op |-> "none", waypoints |-> << >>, origin |-> NoPoint,
           destination |-> NoPoint, accessibility |-> FALSE,
           mode |-> "walking", result |-> NoResult]

\* isValidCoordinates has not been called
NoValidation == [lat |-> JsUndefined, lng |-> JsUndefined, returned |-> FALSE]

\* a request without an Authorization header
NoHeader == [present |-> FALSE, scheme |-> "", rest |-> NoToken]

\* no query has returned
NoRows == [error |-> FALSE, rows |-> << >>]

\* process.env as the constructor finds it: no provider key, or both keys
Environments ==
    { [MAPBOX_ACCESS_TOKEN |-> Undefined, GOOGLE_MAPS_API_KEY |-> Undefined],
      [MAPBOX_ACCESS_TOKEN |-> "pk.token", GOOGLE_MAPS_API_KEY |-> "key"] }

\* the service instance the controller constructs, before any request
Init ==
    /\ \E env \in Environments :
           /\ mapboxApiKey = env.MAPBOX_ACCESS_TOKEN
           /\ googleMapsApiKey = env.GOOGLE_MAPS_API_KEY
    /\ pc = "idle"
    /\ op = "none"
    /\ waypoints = << >>
    /\ origin = NoPoint
    /\ destination = NoPoint
    /\ accessibility = FALSE
    /\ mode = "walking"
    /\ unvisited = << >>
    /\ route = << >>
    /\ optimizedOrder = << >>
    /\ i = 0
    /\ segments = << >>
    /\ totalDistance = Zero
    /\ totalDuration = Zero
    /\ result = NoResult
    /\ iterations = 0
    /\ orderingEvaluations = 0
    /\ segmentEvaluations = 0
    /\ handler = "none"
    /\ cpc = "idle"
    /\ request = NoRequest
    /\ checkIndex = 0
    /\ checks = { }
    /\ invoked = FALSE
    /\ response = NoResponse
    /\ pending = << >>
    /\ delivered = NoCall
    /\ validated = NoValidation
    /\ mwpc = "idle"
    /\ authHeader = NoHeader
    /\ jwtSecret = Undefined
    /\ decoded = NoPayload
    /\ userResult = NoRows
    /\ reqUser = NoUser
    /\ allowedRoles = { }
    /\ routeRequest = NoRequest
    /\ sent = << >>
    /\ nextBy = << >>

\* the arguments and locals of a finished call are gone
ReleaseFrame ==
    /\ pc' = "idle"
    /\ op' = "none"
    /\ waypoints' = << >>
    /\ origin' = NoPoint
    /\ destination' = NoPoint
    /\ accessibility' = FALSE
    /\ mode' = "walking"
    /\ unvisited' = << >>
    /\ route' = << >>
    /\ optimizedOrder' = << >>
    /\ i' = 0
    /\ segments' = << >>
    /\ totalDistance' = Zero
    /\ totalDuration' = Zero
    /\ result' = NoResult
    /\ iterations' = 0
    /\ orderingEvaluations' = 0
    /\ segmentEvaluations' = 0

\* ------------------------------------------------------------------------
\* optimizeRoute
\* ------------------------------------------------------------------------
\* optimizeRoute without its length check
OptimizeRouteCallNoCheck(w, m) ==
    /\ pc = "idle"
    /\ op' = "optimizeRoute"
    /\ waypoints' = w
    /\ mode' = m
    /\ optimizedOrder' = << >>
    /\ i' = 0
    /\ segments' = << >>
    /\ totalDistance' = Zero
    /\ totalDuration' = Zero
    /\ IF FALSE
       THEN /\ pc' = "thrown"
            /\ result' = [kind |-> "error",
                          message |-> "Failed to optimize route"]
            /\ unvisited' = << >>
            /\ route' = << >>
       ELSE /\ pc' = "nn"
            /\ result' = NoResult
            /\ unvisited' = [k \in 1..(Len(w) - 1) |-> k]
            /\ route' = << 0 >>
    /\ UNCHANGED << origin, destination, accessibility, instanceVars,
                    countVars >>

\* optimizeRoute with the controller's range check in place of its own
OptimizeRouteCallRange(w, m) ==
    /\ pc = "idle"
    /\ op' = "optimizeRoute"
    /\ waypoints' = w
    /\ mode' = m
    /\ optimizedOrder' = << >>
    /\ i' = 0
    /\ segments' = << >>
    /\ totalDistance' = Zero
    /\ totalDuration' = Zero
    /\ IF Len(w) < 2 \/ Len(w) > 10
       THEN /\ pc' = "thrown"
            /\ result' = [kind |-> "error",
                          message |-> "Failed to optimize route"]
            /\ unvisited' = << >>
            /\ route' = << >>
       ELSE /\ pc' = "nn"
            /\ result' = NoResult
            /\ unvisited' = [k \in 1..(Len(w) - 1) |-> k]
            /\ route' = << 0 >>
    /\ UNCHANGED << origin, destination, accessibility, instanceVars,
                    countVars >>

\* optimizeRoute(w, m) is entered.  A list shorter than 2 throws inside the
\* try and the catch rethrows; otherwise nearestNeighborOptimization starts
\* with unvisited = [0..n-1] and route = [unvisited.shift()].  The method has
\* no await: from here to its return nothing else runs.
OptimizeRouteCall(w, m) ==
    /\ pc = "idle"
    /\ op' = "optimizeRoute"
    /\ waypoints' = w
    /\ mode' = m
    /\ optimizedOrder' = << >>
    /\ i' = 0
    /\ segments' = << >>
    /\ totalDistance' = Zero
    /\ totalDuration' = Zero
    /\ IF Len(w) < 2
       THEN /\ pc' = "thrown"
            /\ result' = [kind |-> "error",
                          message |-> "Failed to optimize route"]
            /\ unvisited' = << >>
            /\ route' = << >>
       ELSE /\ pc' = "nn"
            /\ result' = NoResult
            /\ unvisited' = [k \in 1..(Len(w) - 1) |-> k]
            /\ route' = << 0 >>
    /\ UNCHANGED << origin, destination, accessibility, instanceVars,
                    countVars >>

\* a while iteration that measures the distance to every waypoint
NearestNeighborStepScanAll ==
    /\ pc = "nn"
    /\ Len(unvisited) > 0
    /\ LET current == route[Len(route)]
           nearest == ScanUnvisited(waypoints, current, unvisited, 0, 0,
                                    Infinity)
       IN  /\ route' = Append(route, unvisited[nearest + 1])
           /\ unvisited' = Splice(unvisited, nearest)
    /\ iterations' = iterations + 1
    /\ orderingEvaluations' = orderingEvaluations + Len(waypoints)
    /\ UNCHANGED middlewareVars
    /\ UNCHANGED << pc, op, waypoints, origin, destination, accessibility,
                    mode, optimizedOrder, i, segments, totalDistance,
                    totalDuration, result, segmentEvaluations, instanceVars,
                    controllerVars, callerVars >>

\* a while iteration that also drops the index following the one it moves
NearestNeighborStepSkip ==
    /\ pc = "nn"
    /\ Len(unvisited) > 0
    /\ LET current == route[Len(route)]
           nearest == ScanUnvisited(waypoints, current, unvisited, 0, 0,
                                    Infinity)
       IN  /\ route' = Append(route, unvisited[nearest + 1])
           /\ unvisited' = IF Len(unvisited) = 1 THEN << >>
                          ELSE Splice(Splice(unvisited, nearest),
                                   IF nearest < Len(unvisited) - 1
                                   THEN nearest ELSE 0)
    /\ iterations' = iterations + 1
    /\ orderingEvaluations' = orderingEvaluations + Len(unvisited)
    /\ UNCHANGED middlewareVars
    /\ UNCHANGED << pc, op, waypoints, origin, destination, accessibility,
                    mode, optimizedOrder, i, segments, totalDistance,
                    totalDuration, result, segmentEvaluations, instanceVars,
                    controllerVars, callerVars >>

\* one iteration of the while loop of nearestNeighborOptimization: the
\* forEach calls calculateDistance once per unvisited index
NearestNeighborStep ==
    /\ pc = "nn"
    /\ Len(unvisited) > 0
    /\ LET current == route[Len(route)]
           nearest == ScanUnvisited(waypoints, current, unvisited, 0, 0,
                                    Infinity)
       IN  /\ route' = Append(route, unvisited[nearest + 1])
           /\ unvisited' = Splice(unvisited, nearest)
    /\ iterations' = iterations + 1
    /\ orderingEvaluations' = orderingEvaluations + Len(unvisited)
    /\ UNCHANGED middlewareVars
    /\ UNCHANGED << pc, op, waypoints, origin, destination, accessibility,
                    mode, optimizedOrder, i, segments, totalDistance,
                    totalDuration, result, segmentEvaluations, instanceVars,
                    controllerVars, callerVars >>

\* the optimizer returning a shortest order of those that start at 0
NearestNeighborReturnShortest ==
    /\ pc = "nn"
    /\ Len(unvisited) = 0
    /\ optimizedOrder' = ShortestOrder(waypoints, route)
    /\ pc' = "seg"
    /\ UNCHANGED middlewareVars
    /\ UNCHANGED << op, waypoints, origin, destination, accessibility, mode,
                    unvisited, route, i, segments, totalDistance,
                    totalDuration, result, instanceVars, countVars,
                    controllerVars, callerVars >>

\* the while loop ends: nearestNeighborOptimization returns route
NearestNeighborReturn ==
    /\ pc = "nn"
    /\ Len(unvisited) = 0
    /\ optimizedOrder' = route
    /\ pc' = "seg"
    /\ UNCHANGED middlewareVars
    /\ UNCHANGED << op, waypoints, origin, destination, accessibility, mode,
                    unvisited, route, i, segments, totalDistance,
                    totalDuration, result, instanceVars, countVars,
                    controllerVars, callerVars >>

\* the segment loop with from and to exchanged
SegmentStepSwapped ==
    /\ pc = "seg"
    /\ i < Len(optimizedOrder) - 1
    /\ LET from == At(waypoints, optimizedOrder[i + 2])
           to == At(waypoints, optimizedOrder[i + 1])
           distance == ToMeters(calculateDistance(from, to))
           duration == estimateDuration(from, to, mode)
       IN  /\ segments' = Append(segments,
                                 [from |-> from, to |-> to,
                                  distance |-> distance,
                                  duration |-> duration])
           /\ totalDistance' = FAdd(totalDistance, distance)
           /\ totalDuration' = FAdd(totalDuration, duration)
    /\ i' = i + 1
    /\ segmentEvaluations' = segmentEvaluations + 2
    /\ UNCHANGED middlewareVars
    /\ UNCHANGED << pc, op, waypoints, origin, destination, accessibility,
                    mode, unvisited, route, optimizedOrder, result,
                    iterations, orderingEvaluations, instanceVars,
                    controllerVars, callerVars >>

\* the segment loop assigning the totals where it accumulates them
SegmentStepOverwrite ==
    /\ pc = "seg"
    /\ i < Len(optimizedOrder) - 1
    /\ LET from == At(waypoints, optimizedOrder[i + 1])
           to == At(waypoints, optimizedOrder[i + 2])
           distance == ToMeters(calculateDistance(from, to))
           duration == estimateDuration(from, to, mode)
       IN  /\ segments' = Append(segments,
                                 [from |-> from, to |-> to,
                                  distance |-> distance,
                                  duration |-> duration])
           /\ totalDistance' = distance
           /\ totalDuration' = duration
    /\ i' = i + 1
    /\ segmentEvaluations' = segmentEvaluations + 2
    /\ UNCHANGED middlewareVars
    /\ UNCHANGED << pc, op, waypoints, origin, destination, accessibility,
                    mode, unvisited, route, optimizedOrder, result,
                    iterations, orderingEvaluations, instanceVars,
                    controllerVars, callerVars >>

\* the segment loop pairing the waypoints in input order
SegmentStepInputOrder ==
    /\ pc = "seg"
    /\ i < Len(optimizedOrder) - 1
    /\ LET from == At(waypoints, i)
           to == At(waypoints, i + 1)
           distance == ToMeters(calculateDistance(from, to))
           duration == estimateDuration(from, to, mode)
       IN  /\ segments' = Append(segments,
                                 [from |-> from, to |-> to,
                                  distance |-> distance,
                                  duration |-> duration])
           /\ totalDistance' = FAdd(totalDistance, distance)
           /\ totalDuration' = FAdd(totalDuration, duration)
    /\ i' = i + 1
    /\ segmentEvaluations' = segmentEvaluations + 2
    /\ UNCHANGED middlewareVars
    /\ UNCHANGED << pc, op, waypoints, origin, destination, accessibility,
                    mode, unvisited, route, optimizedOrder, result,
                    iterations, orderingEvaluations, instanceVars,
                    controllerVars, callerVars >>

\* one iteration of the segment loop of optimizeRoute: calculateDistance
\* is called once for distance and once inside estimateDuration
SegmentStep ==
    /\ pc = "seg"
    /\ i < Len(optimizedOrder) - 1
    /\ LET from == At(waypoints, optimizedOrder[i + 1])
           to == At(waypoints, optimizedOrder[i + 2])
           distance == ToMeters(calculateDistance(from, to))
           duration == estimateDuration(from, to, mode)
       IN  /\ segments' = Append(segments,
                                 [from |-> from, to |-> to,
                                  distance |-> distance,
                                  duration |-> duration])
           /\ totalDistance' = FAdd(totalDistance, distance)
           /\ totalDuration' = FAdd(totalDuration, duration)
    /\ i' = i + 1
    /\ segmentEvaluations' = segmentEvaluations + 2
    /\ UNCHANGED middlewareVars
    /\ UNCHANGED << pc, op, waypoints, origin, destination, accessibility,
                    mode, unvisited, route, optimizedOrder, result,
                    iterations, orderingEvaluations, instanceVars,
                    controllerVars, callerVars >>

\* a return that leaves the segments to a configured provider
OptimizeRouteReturnProvider ==
    /\ pc = "seg"
    /\ i >= Len(optimizedOrder) - 1
    /\ result' = [kind |-> "optimized",
                  waypoints |-> waypoints,
                  optimizedOrder |-> optimizedOrder,
                  totalDistance |-> totalDistance,
                  totalDuration |-> totalDuration,
                  mode |-> mode,
                  segments |-> IF mapboxApiKey = Undefined THEN segments
                               ELSE << >>]
    /\ pc' = "done"
    /\ UNCHANGED middlewareVars
    /\ UNCHANGED << op, waypoints, origin, destination, accessibility, mode,
                    unvisited, route, optimizedOrder, i, segments,
                    totalDistance, totalDuration, instanceVars, countVars,
                    controllerVars, callerVars >>

\* a return that reads the mode from where the last finished call left it
OptimizeRouteReturnSharedMode ==
    /\ pc = "seg"
    /\ i >= Len(optimizedOrder) - 1
    /\ result' = [kind |-> "optimized",
                  waypoints |-> waypoints,
                  optimizedOrder |-> optimizedOrder,
                  totalDistance |-> totalDistance,
                  totalDuration |-> totalDuration,
                  mode |-> IF Len(pending) > 0
                           THEN pending[Len(pending)].mode ELSE mode,
                  segments |-> segments]
    /\ pc' = "done"
    /\ UNCHANGED middlewareVars
    /\ UNCHANGED << op, waypoints, origin, destination, accessibility, mode,
                    unvisited, route, optimizedOrder, i, segments,
                    totalDistance, totalDuration, instanceVars, countVars,
                    controllerVars, callerVars >>

\* a return whose waypoints field is in the optimized order
OptimizeRouteReturnReordered ==
    /\ pc = "seg"
    /\ i >= Len(optimizedOrder) - 1
    /\ result' = [kind |-> "optimized",
                  waypoints |-> [k \in 1..Len(waypoints) |->
                                   At(waypoints, optimizedOrder[k])],
                  optimizedOrder |-> optimizedOrder,
                  totalDistance |-> totalDistance,
                  totalDuration |-> totalDuration,
                  mode |-> mode,
                  segments |-> segments]
    /\ pc' = "done"
    /\ UNCHANGED middlewareVars
    /\ UNCHANGED << op, waypoints, origin, destination, accessibility, mode,
                    unvisited, route, optimizedOrder, i, segments,
                    totalDistance, totalDuration, instanceVars, countVars,
                    controllerVars, callerVars >>

\* the segment loop ends: optimizeRoute returns the OptimizedRoute
OptimizeRouteReturn ==
    /\ pc = "seg"
    /\ i >= Len(optimizedOrder) - 1
    /\ result' = [kind |-> "optimized",
                  waypoints |-> waypoints,
                  optimizedOrder |-> optimizedOrder,
                  totalDistance |-> totalDistance,
                  totalDuration |-> totalDuration,
                  mode |-> mode,
                  segments |-> segments]
    /\ pc' = "done"
    /\ UNCHANGED middlewareVars
    /\ UNCHANGED << op, waypoints, origin, destination, accessibility, mode,
                    unvisited, route, optimizedOrder, i, segments,
                    totalDistance, totalDuration, instanceVars, countVars,
                    controllerVars, callerVars >>

\* ------------------------------------------------------------------------
\* calculateRoute
\* ------------------------------------------------------------------------
\* calculateBounds(coordinates)
Max2(x, y) == IF x >= y THEN x ELSE y
Min2(x, y) == IF x <= y THEN x ELSE y
calculateBounds(c1, c2) ==
    [northeast |-> Coord(Max2(c1.lat, c2.lat), Max2(c1.lng, c2.lng)),
     southwest |-> Coord(Min2(c1.lat, c2.lat), Min2(c1.lng, c2.lng))]

\* the double nearest to the decimal literal n/d
Decimal(n, d) == FDiv(Num(n), Num(d))

\* a point given by its latitude and longitude as doubles
Place(c) == [lat |-> Degrees(c.lat), lng |-> Degrees(c.lng)]

\* one step of generateMockSteps: part tenths of the way
MockStep(instruction, total, part, coordinates, maneuver) ==
    [instruction |-> instruction,
     distance |-> FMul(total, Decimal(part, 10)),
     duration |-> MathRound(FDiv(FMul(total, Decimal(part, 10)),
                                 Decimal(14, 10))),
     coordinates |-> coordinates,
     maneuver |-> maneuver]

\* generateMockSteps(origin, destination)
generateMockSteps(o, d) ==
    LET total == ToMeters(calculateDistance(o, d))
        midpoint == [lat |-> Half(FAdd(Degrees(o.lat), Degrees(d.lat))),
                     lng |-> Half(FAdd(Degrees(o.lng), Degrees(d.lng)))]
        step == Decimal(1, CoordUnit)
    IN  << MockStep("Head towards your destination", total, 6,
                    << Place(o), midpoint >>, "depart"),
           MockStep("Continue straight", total, 3,
                    << midpoint, [lat |-> FAdd(midpoint.lat, step),
                                  lng |-> FAdd(midpoint.lng, step)] >>,
                    "continue straight"),
           MockStep("Arrive at your destination", total, 1,
                    << [lat |-> FSub(Degrees(d.lat), step),
                        lng |-> FSub(Degrees(d.lng), step)], Place(d) >>,
                    "arrive") >>

\* encodePolyline(coordinates): toFixed(5) of a coordinate of n/CoordUnit
\* degrees prints n * 100000 / CoordUnit hundred-thousandths, exactly
encodePolyline(c1, c2) ==
    << << c1.lat * (100000 \div CoordUnit), c1.lng * (100000 \div CoordUnit) >>,
       << c2.lat * (100000 \div CoordUnit), c2.lng * (100000 \div CoordUnit) >> >>

\* the Route that calculateRoute builds
mockRoute(o, d, m, acc) ==
    [kind |-> "route",
     origin |-> o,
     destination |-> d,
     mode |-> m,
     accessibility |-> acc,
     distance |-> ToMeters(calculateDistance(o, d)),
     duration |-> estimateDuration(o, d, m),
     steps |-> generateMockSteps(o, d),
     polyline |-> encodePolyline(o, d),
     bounds |-> calculateBounds(o, d),
     warnings |-> IF acc THEN << "Route optimized for accessibility" >>
                  ELSE << >>]

\* calculateRoute(o, d, m, acc) returns the Route; the method has no await
CalculateRoute(o, d, m, acc) ==
    /\ pc = "idle"
    /\ op' = "calculateRoute"
    /\ origin' = o
    /\ destination' = d
    /\ accessibility' = acc
    /\ mode' = m
    /\ result' = mockRoute(o, d, m, acc)
    /\ pc' = "done"
    /\ UNCHANGED << waypoints, unvisited, route, optimizedOrder, i, segments,
                    totalDistance, totalDuration, instanceVars, countVars >>

\* ------------------------------------------------------------------------
\* Callers of the service
\* ------------------------------------------------------------------------
\* the call in the frame, as its caller sees it: arguments and promise value
ThisCall ==
    [op |-> op, waypoints |-> waypoints, origin |-> origin,
     destination |-> destination, accessibility |-> accessibility,
     mode |-> mode, result |-> result]

\* a caller other than the controller calls optimizeRoute
DirectOptimizeRoute(w, m) ==
    /\ cpc = "idle"
    /\ delivered = NoCall
    /\ OptimizeRouteCall(w, m)
    /\ UNCHANGED middlewareVars
    /\ UNCHANGED << controllerVars, callerVars >>

\* a caller other than the controller calls calculateRoute
DirectCalculateRoute(o, d, m, acc) ==
    /\ cpc = "idle"
    /\ delivered = NoCall
    /\ CalculateRoute(o, d, m, acc)
    /\ UNCHANGED middlewareVars
    /\ UNCHANGED << controllerVars, callerVars >>

\* the caller's continuation runs next and consumes the result or the
\* error: the arguments and the locals of the call are gone, and the service
\* instance takes the next call
NextCall ==
    /\ pc \in { "done", "thrown" }
    /\ cpc = "idle"
    /\ ReleaseFrame
    /\ UNCHANGED middlewareVars
    /\ UNCHANGED << instanceVars, controllerVars, callerVars >>

\* the method has returned its promise and the caller awaits it: the
\* continuation is queued, and other calls may run before it does
Await ==
    /\ pc \in { "done", "thrown" }
    /\ cpc = "idle"
    /\ Len(pending) < MaxPending
    /\ pending' = Append(pending, ThisCall)
    /\ ReleaseFrame
    /\ UNCHANGED middlewareVars
    /\ UNCHANGED << instanceVars, controllerVars, delivered >>

\* the continuation of the k-th waiting caller runs: it receives the value
\* of its promise
Resume(k) ==
    /\ pc = "idle"
    /\ cpc = "idle"
    /\ delivered = NoCall
    /\ k \in 1..Len(pending)
    /\ delivered' = pending[k]
    /\ pending' = [j \in 1..(Len(pending) - 1) |->
                      IF j < k THEN pending[j] ELSE pending[j + 1]]
    /\ UNCHANGED middlewareVars
    /\ UNCHANGED << instanceVars, frameVars, countVars, controllerVars >>

\* the continuation ends
Continue ==
    /\ delivered # NoCall
    /\ delivered' = NoCall
    /\ UNCHANGED middlewareVars
    /\ UNCHANGED << instanceVars, frameVars, countVars, controllerVars,
                    pending >>

\* ------------------------------------------------------------------------
\* RoutesController.optimizeRoute
\* ------------------------------------------------------------------------
\* a request for POST optimize arrives: the handler destructures req.body
ReceiveOptimizeRoute(body) ==
    /\ cpc = "idle"
    /\ pc = "idle"
    /\ delivered = NoCall
    /\ Len(pending) = 0
    /\ handler' = "optimizeRoute"
    /\ request' = body
    /\ cpc' = "waypoints"
    /\ checkIndex' = 0
    /\ checks' = { }
    /\ invoked' = FALSE
    /\ response' = NoResponse
    /\ UNCHANGED middlewareVars
    /\ UNCHANGED << instanceVars, frameVars, countVars, callerVars >>

\* the first if: waypoints must be an array of 2 to 10 elements
CheckWaypoints ==
    /\ handler = "optimizeRoute"
    /\ cpc = "waypoints"
    /\ IF \/ request.waypoints.type # "array"
          \/ Len(request.waypoints.items) < 2
          \/ Len(request.waypoints.items) > 10
       THEN /\ response' = BadRequest("INVALID_WAYPOINTS", -1)
            /\ cpc' = "sent"
            /\ UNCHANGED checks
       ELSE /\ checks' = checks \cup { "waypoints" }
            /\ cpc' = "coordinates"
            /\ UNCHANGED response
    /\ UNCHANGED middlewareVars
    /\ UNCHANGED << handler, request, checkIndex, invoked, instanceVars,
                    frameVars, countVars, callerVars >>

\* one iteration of the for loop over the waypoints; reading .lat of a null
\* element throws a TypeError, which the catch block answers with 500
CheckWaypointCoordinates ==
    /\ handler = "optimizeRoute"
    /\ cpc = "coordinates"
    /\ LET items == request.waypoints.items
           waypoint == items[checkIndex + 1]
       IN  IF waypoint.type = "null"
           THEN /\ response' = ServerError("ROUTE_OPTIMIZATION_ERROR")
                /\ cpc' = "sent"
                /\ UNCHANGED << checkIndex, checks >>
           ELSE IF ~isValidCoordinates(waypoint.lat, waypoint.lng)
           THEN /\ response' = BadRequest("INVALID_WAYPOINT_COORDINATES",
                                          checkIndex)
                /\ cpc' = "sent"
                /\ UNCHANGED << checkIndex, checks >>
           ELSE /\ checkIndex' = checkIndex + 1
                /\ IF checkIndex + 1 >= Len(items)
                   THEN /\ checks' = checks \cup { "coordinates" }
                        /\ cpc' = "mode"
                   ELSE UNCHANGED << checks, cpc >>
                /\ UNCHANGED response
    /\ UNCHANGED middlewareVars
    /\ UNCHANGED << handler, request, invoked, instanceVars, frameVars,
                    countVars, callerVars >>

\* the third if: the mode must be one the service knows
CheckOptimizeMode ==
    /\ handler = "optimizeRoute"
    /\ cpc = "mode"
    /\ IF ~isValidRouteMode(ModeOf(request))
       THEN /\ response' = BadRequest("INVALID_ROUTE_MODE", -1)
            /\ cpc' = "sent"
            /\ UNCHANGED checks
       ELSE /\ checks' = checks \cup { "mode" }
            /\ cpc' = "invoke"
            /\ UNCHANGED response
    /\ UNCHANGED middlewareVars
    /\ UNCHANGED << handler, request, checkIndex, invoked, instanceVars,
                    frameVars, countVars, callerVars >>

\* this.routingService.optimizeRoute(waypoints, mode) is called
InvokeOptimizeRoute ==
    /\ handler = "optimizeRoute"
    /\ cpc = "invoke"
    /\ OptimizeRouteCall(ToCoordinateList(request.waypoints.items),
                         ModeOf(request))
    /\ invoked' = TRUE
    /\ cpc' = "await"
    /\ UNCHANGED middlewareVars
    /\ UNCHANGED << handler, request, checkIndex, checks, response,
                    callerVars >>

\* the await resumes: res.json({ route }), or the catch block's 500
RespondOptimizeRoute ==
    /\ handler = "optimizeRoute"
    /\ cpc = "await"
    /\ pc \in { "done", "thrown" }
    /\ response' = IF pc = "done" THEN Ok(result)
                   ELSE ServerError("ROUTE_OPTIMIZATION_ERROR")
    /\ cpc' = "sent"
    /\ ReleaseFrame
    /\ UNCHANGED middlewareVars
    /\ UNCHANGED << handler, request, checkIndex, checks, invoked,
                    instanceVars, callerVars >>

\* ------------------------------------------------------------------------
\* RoutesController.getDirections
\* ------------------------------------------------------------------------
\* a request for POST directions arrives: the handler destructures req.body
ReceiveDirections(body) ==
    /\ cpc = "idle"
    /\ pc = "idle"
    /\ delivered = NoCall
    /\ Len(pending) = 0
    /\ handler' = "getDirections"
    /\ request' = body
    /\ cpc' = "origin"
    /\ checkIndex' = 0
    /\ checks' = { }
    /\ invoked' = FALSE
    /\ response' = NoResponse
    /\ UNCHANGED middlewareVars
    /\ UNCHANGED << instanceVars, frameVars, countVars, callerVars >>

\* !place || !isValidCoordinates(place.lat, place.lng)
IsRejectedPlace(place) ==
    \/ place.type \in { "undefined", "null" }
    \/ ~isValidCoordinates(place.lat, place.lng)

\* the first if: the origin must be there and valid
CheckOrigin ==
    /\ handler = "getDirections"
    /\ cpc = "origin"
    /\ IF IsRejectedPlace(request.origin)
       THEN /\ response' = BadRequest("INVALID_ORIGIN_COORDINATES", -1)
            /\ cpc' = "sent"
            /\ UNCHANGED checks
       ELSE /\ checks' = checks \cup { "origin" }
            /\ cpc' = "destination"
            /\ UNCHANGED response
    /\ UNCHANGED middlewareVars
    /\ UNCHANGED << handler, request, checkIndex, invoked, instanceVars,
                    frameVars, countVars, callerVars >>

\* the second if: the destination must be there and valid
CheckDestination ==
    /\ handler = "getDirections"
    /\ cpc = "destination"
    /\ IF IsRejectedPlace(request.destination)
       THEN /\ response' = BadRequest("INVALID_DESTINATION_COORDINATES", -1)
            /\ cpc' = "sent"
            /\ UNCHANGED checks
       ELSE /\ checks' = checks \cup { "destination" }
            /\ cpc' = "mode"
            /\ UNCHANGED response
    /\ UNCHANGED middlewareVars
    /\ UNCHANGED << handler, request, checkIndex, invoked, instanceVars,
                    frameVars, countVars, callerVars >>

\* the third if: the mode must be one the service knows
CheckDirectionsMode ==
    /\ handler = "getDirections"
    /\ cpc = "mode"
    /\ IF ~isValidRouteMode(ModeOf(request))
       THEN /\ response' = BadRequest("INVALID_ROUTE_MODE", -1)
            /\ cpc' = "sent"
            /\ UNCHANGED checks
       ELSE /\ checks' = checks \cup { "mode" }
            /\ cpc' = "invoke"
            /\ UNCHANGED response
    /\ UNCHANGED middlewareVars
    /\ UNCHANGED << handler, request, checkIndex, invoked, instanceVars,
                    frameVars, countVars, callerVars >>

\* this.routingService.calculateRoute(origin, destination, mode,
\* accessibility) is called
InvokeCalculateRoute ==
    /\ handler = "getDirections"
    /\ cpc = "invoke"
    /\ CalculateRoute(ToCoordinates(request.origin),
                      ToCoordinates(request.destination), ModeOf(request),
                      AccessibilityOf(request))
    /\ invoked' = TRUE
    /\ cpc' = "await"
    /\ UNCHANGED middlewareVars
    /\ UNCHANGED << handler, request, checkIndex, checks, response,
                    callerVars >>

\* the await resumes: res.json({ route }), or the catch block's 500
RespondDirections ==
    /\ handler = "getDirections"
    /\ cpc = "await"
    /\ pc \in { "done", "thrown" }
    /\ response' = IF pc = "done" THEN Ok(result)
                   ELSE ServerError("ROUTE_CALCULATION_ERROR")
    /\ cpc' = "sent"
    /\ ReleaseFrame
    /\ UNCHANGED middlewareVars
    /\ UNCHANGED << handler, request, checkIndex, checks, invoked,
                    instanceVars, callerVars >>

\* the handler has returned and the response is on its way
ResponseSent ==
    /\ cpc = "sent"
    /\ handler' = "none"
    /\ cpc' = "idle"
    /\ request' = NoRequest
    /\ checkIndex' = 0
    /\ checks' = { }
    /\ invoked' = FALSE
    /\ response' = NoResponse
    /\ UNCHANGED middlewareVars
    /\ UNCHANGED << instanceVars, frameVars, countVars, callerVars >>

\* ------------------------------------------------------------------------
\* Specifications
\* ------------------------------------------------------------------------
\* one caller at a time: direct calls of the service with every waypoint
\* array of CallLists, and requests through the controller
Next ==
    \/ \E w \in CallLists, m \in Modes : DirectOptimizeRoute(w, m)
    \/ NearestNeighborStep
    \/ NearestNeighborReturn
    \/ SegmentStep
    \/ OptimizeRouteReturn
    \/ \E o \in Points, d \in Points, m \in Modes, acc \in BOOLEAN :
           DirectCalculateRoute(o, d, m, acc)
    \/ NextCall
    \/ \E body \in OptimizeRouteBodies : ReceiveOptimizeRoute(body)
    \/ CheckWaypoints
    \/ CheckWaypointCoordinates
    \/ CheckOptimizeMode
    \/ InvokeOptimizeRoute
    \/ RespondOptimizeRoute
    \/ \E body \in DirectionsBodies : ReceiveDirections(body)
    \/ CheckOrigin
    \/ CheckDestination
    \/ CheckDirectionsMode
    \/ InvokeCalculateRoute
    \/ RespondDirections
    \/ ResponseSent

Spec == Init /\ [][Next]_vars

\* the lists the ordering loop is followed to its end for
OrderingLists ==
    { LongList(n) : n \in 2..10 }
      \cup { CampusWaypoints, << PointSeq[4], PointSeq[5], PointSeq[4] >>,
             << PointSeq[4], PointSeq[5], PointSeq[5] >> }

\* calls of optimizeRoute, one after the other
NextOrdering ==
    \/ \E w \in OrderingLists, m \in Modes : DirectOptimizeRoute(w, m)
    \/ NearestNeighborStep
    \/ NearestNeighborReturn
    \/ SegmentStep
    \/ OptimizeRouteReturn
    \/ NextCall

\* a turn of the ordering loop, told by what it does to pc and to the
\* iteration count: NearestNeighborStep while an index is unvisited,
\* NearestNeighborReturn when none is
OrderingLoopTurn ==
    /\ pc = "nn"
    /\ IF Len(unvisited) > 0
       THEN pc' = "nn" /\ iterations' = iterations + 1
       ELSE pc' = "seg" /\ iterations' = iterations

\* the ordering loop is synchronous code on the one thread there is: once
\* entered, it takes its turns until it returns
FairSpec ==
    /\ Init
    /\ [][NextOrdering]_vars
    /\ WF_<< pc, iterations >>(OrderingLoopTurn)

\* the calls made while other callers wait on their promises
ConcurrentLists ==
    { LongList(3), << PointSeq[4], PointSeq[5] >>, << PointSeq[1] >> }

ConcurrentModes == { "walking", "driving" }

\* several callers share the instance: a caller that awaits its promise lets
\* other calls run before its continuation does
NextConcurrent ==
    \/ \E w \in ConcurrentLists, m \in ConcurrentModes :
           DirectOptimizeRoute(w, m)
    \/ NearestNeighborStep
    \/ NearestNeighborReturn
    \/ SegmentStep
    \/ OptimizeRouteReturn
    \/ \E d \in { PointSeq[2], PointSeq[5] } :
           DirectCalculateRoute(PointSeq[4], d, "cycling", TRUE)
    \/ NextCall
    \/ Await
    \/ \E k \in 1..MaxPending : Resume(k)
    \/ Continue

SpecConcurrent == Init /\ [][NextConcurrent]_vars

\* ------------------------------------------------------------------------
\* ValidationUtils, the middlewares and the route handler, called one at a
\* time
\* ------------------------------------------------------------------------
\* the variables of the service, its callers and the controller
serviceVars ==
    << instanceVars, frameVars, countVars, controllerVars, callerVars >>

\* the values isValidCoordinates is called with: numbers at, next to and
\* between the bounds of both ranges, in units of
\* 1/CoordUnit degree
\* 1/CoordUnit degree, NaN, strings that spell a number in range or none,
\* undefined
CoordinateArguments ==
    { JsNumber(n) : n \in
          { -180 * CoordUnit - 1, -180 * CoordUnit, -90 * CoordUnit - 1,
            -90 * CoordUnit, 0, 90 * CoordUnit, 90 * CoordUnit + 1,
            180 * CoordUnit, 180 * CoordUnit + 1 } }
      \cup { JsNaN, JsNumeral(0), JsNumeral(45 * CoordUnit), JsString,
             JsUndefined }

\* a call of ValidationUtils.isValidCoordinates(lat, lng) and what it returns
IsValidCoordinatesCall(lat, lng) ==
    /\ mwpc = "idle"
    /\ validated' = [lat |-> lat, lng |-> lng,
                     returned |-> isValidCoordinates(lat, lng)]
    /\ UNCHANGED << mwpc, authHeader, jwtSecret, decoded, userResult, reqUser,
                    allowedRoles, routeRequest, sent, nextBy >>
    /\ UNCHANGED serviceVars

\* the catch block of authenticate: the response for the error caught
AuthenticateCatch(error) ==
    IF InstanceOf(error, "JsonWebTokenError")
    THEN Reply(401, "INVALID_TOKEN")
    ELSE IF InstanceOf(error, "TokenExpiredError")
         THEN Reply(401, "TOKEN_EXPIRED")
         ELSE Reply(500, "AUTHENTICATION_ERROR")

\* authenticate up to its first await: the header, the token, the secret,
\* jwt.verify and the query for the user
AuthenticateCall(header, secret) ==
    /\ mwpc = "idle"
    /\ authHeader' = header
    /\ IF IsFalsyHeader(header)
       THEN /\ sent' = Append(sent, Reply(401, "MISSING_TOKEN"))
            /\ mwpc' = "authenticateDone"
            /\ UNCHANGED << jwtSecret, decoded >>
       ELSE IF TokenOf(header) = NoToken
       THEN /\ sent' = Append(sent, Reply(401, "INVALID_TOKEN_FORMAT"))
            /\ mwpc' = "authenticateDone"
            /\ UNCHANGED << jwtSecret, decoded >>
       ELSE /\ jwtSecret' = secret
            /\ IF secret = Undefined
               THEN /\ sent' = Append(sent,
                                   Reply(500, "SERVER_CONFIGURATION_ERROR"))
                    /\ mwpc' = "authenticateDone"
                    /\ UNCHANGED decoded
               ELSE IF JwtVerify(TokenOf(header)).threw # "none"
               THEN /\ sent' = Append(sent,
                                   AuthenticateCatch(
                                       JwtVerify(TokenOf(header)).threw))
                    /\ mwpc' = "authenticateDone"
                    /\ UNCHANGED decoded
               ELSE /\ decoded' = JwtVerify(TokenOf(header)).payload
                    /\ mwpc' = "userQuery"
                    /\ UNCHANGED sent
    /\ UNCHANGED << validated, userResult, reqUser, allowedRoles, routeRequest,
                    nextBy >>
    /\ UNCHANGED serviceVars

\* a variant that sets req.user for a deactivated user as well
AuthenticateUserResultAnyUser(r) ==
    /\ mwpc = "userQuery"
    /\ r \in QueryResults(decoded.id)
    /\ userResult' = r
    /\ IF r.error
       THEN /\ sent' = Append(sent, AuthenticateCatch("DatabaseError"))
            /\ mwpc' = "authenticateDone"
            /\ UNCHANGED reqUser
       ELSE IF Len(r.rows) = 0
       THEN /\ sent' = Append(sent, Reply(401, "USER_NOT_FOUND"))
            /\ mwpc' = "authenticateDone"
            /\ UNCHANGED reqUser
       ELSE /\ reqUser' = UserOf(r.rows[1])
            /\ mwpc' = "updateLogin"
            /\ UNCHANGED sent
    /\ UNCHANGED << validated, authHeader, jwtSecret, decoded, allowedRoles,
                    routeRequest, nextBy >>
    /\ UNCHANGED serviceVars

\* the query for the user settles: the rows, the is_active test, req.user and
\* the update of last_login
AuthenticateUserResult(r) ==
    /\ mwpc = "userQuery"
    /\ r \in QueryResults(decoded.id)
    /\ userResult' = r
    /\ IF r.error
       THEN /\ sent' = Append(sent, AuthenticateCatch("DatabaseError"))
            /\ mwpc' = "authenticateDone"
            /\ UNCHANGED reqUser
       ELSE IF Len(r.rows) = 0
       THEN /\ sent' = Append(sent, Reply(401, "USER_NOT_FOUND"))
            /\ mwpc' = "authenticateDone"
            /\ UNCHANGED reqUser
       ELSE IF ~r.rows[1].is_active
       THEN /\ sent' = Append(sent, Reply(401, "ACCOUNT_DEACTIVATED"))
            /\ mwpc' = "authenticateDone"
            /\ UNCHANGED reqUser
       ELSE /\ reqUser' = UserOf(r.rows[1])
            /\ mwpc' = "updateLogin"
            /\ UNCHANGED sent
    /\ UNCHANGED << validated, authHeader, jwtSecret, decoded, allowedRoles,
                    routeRequest, nextBy >>
    /\ UNCHANGED serviceVars

\* the update of last_login settles: next(), or the catch block
AuthenticateUpdateDone(ok) ==
    /\ mwpc = "updateLogin"
    /\ IF ok
       THEN /\ nextBy' = Append(nextBy, "authenticate")
            /\ UNCHANGED sent
       ELSE /\ sent' = Append(sent, AuthenticateCatch("DatabaseError"))
            /\ UNCHANGED nextBy
    /\ mwpc' = "authenticateDone"
    /\ UNCHANGED << validated, authHeader, jwtSecret, decoded, userResult,
                    reqUser, allowedRoles, routeRequest >>
    /\ UNCHANGED serviceVars

\* a variant that tests only that req.user is set
AuthorizeCallAnyRole(roles) ==
    /\ \/ mwpc = "idle"
       \/ (mwpc = "authenticateDone" /\ nextBy = << "authenticate" >>)
    /\ allowedRoles' = roles
    /\ IF reqUser = NoUser
       THEN /\ sent' = Append(sent, Reply(401, "AUTHENTICATION_REQUIRED"))
            /\ UNCHANGED nextBy
       ELSE /\ nextBy' = Append(nextBy, "authorize")
            /\ UNCHANGED sent
    /\ mwpc' = "authorizeDone"
    /\ UNCHANGED << validated, authHeader, jwtSecret, decoded, userResult,
                    reqUser, routeRequest >>
    /\ UNCHANGED serviceVars

\* the middleware authorize(roles) made, first in the chain or after an
\* authenticate that called next()
AuthorizeCall(roles) ==
    /\ \/ mwpc = "idle"
       \/ (mwpc = "authenticateDone" /\ nextBy = << "authenticate" >>)
    /\ allowedRoles' = roles
    /\ IF reqUser = NoUser
       THEN /\ sent' = Append(sent, Reply(401, "AUTHENTICATION_REQUIRED"))
            /\ UNCHANGED nextBy
       ELSE IF reqUser.role \notin roles
       THEN /\ sent' = Append(sent, Reply(403, "INSUFFICIENT_PERMISSIONS"))
            /\ UNCHANGED nextBy
       ELSE /\ nextBy' = Append(nextBy, "authorize")
            /\ UNCHANGED sent
    /\ mwpc' = "authorizeDone"
    /\ UNCHANGED << validated, authHeader, jwtSecret, decoded, userResult,
                    reqUser, routeRequest >>
    /\ UNCHANGED serviceVars

\* ------------------------------------------------------------------------
\* POST /api/routes/optimize of routes.ts
\* ------------------------------------------------------------------------
\* the waypoints of the bodies sent to the route: arrays of 0 to 11 valid
\* points, arrays with an element out of range, on the edge of the range, of
\* strings or with a part missing, and values that are no array
RouteWaypoints ==
    { JsPoints(LongList(n)) : n \in { 1, 2, 3, 4, 10, 11 } }
      \cup { JsPoints(<< >>), JsPoints(<< PointSeq[4], PointSeq[5] >>),
             JsNoArray("undefined"), JsNoArray("string") }
      \cup { JsArray(<< b, JsPoint(PointSeq[1]) >>) :
                 b \in BadObjects \cup EdgeObjects }
      \cup { JsArray(<< JsPoint(PointSeq[1]), JsPoint(PointSeq[2]), b >>) :
                 b \in BadObjects \cup EdgeObjects }

RouteBodies ==
    { [waypoints |-> w, origin |-> JsNoObject, destination |-> JsNoObject,
       mode |-> m, accessibility |-> Undefined] :
          w \in RouteWaypoints, m \in RequestModes }

\* isArray({ min, max })
IsArrayOf(w, min, max) ==
    w.type = "array" /\ Len(w.items) >= min /\ Len(w.items) <= max

\* isFloat({ min, max }) for bounds in degrees: the value is tested as the
\* string it converts to, so the string of a number passes as the number does
IsFloatIn(x, min, max) ==
    /\ x.type \in { "number", "string" }
    /\ ~x.nan
    /\ x.value >= min * CoordUnit
    /\ x.value <= max * CoordUnit

\* the errors the validation chains of the route collect for a body: the
\* field, and the index for a field under the wildcard
ValidationErrors(b) ==
    (IF IsArrayOf(b.waypoints, 2, 10) THEN { }
     ELSE { [field |-> "waypoints", index |-> -1] })
      \cup { [field |-> "waypoints.*.lat", index |-> k - 1] : k \in
                 { j \in 1..Len(b.waypoints.items) :
                     ~IsFloatIn(b.waypoints.items[j].lat, -90, 90) } }
      \cup { [field |-> "waypoints.*.lng", index |-> k - 1] : k \in
                 { j \in 1..Len(b.waypoints.items) :
                     ~IsFloatIn(b.waypoints.items[j].lng, -180, 180) } }
      \cup (IF b.mode = Undefined \/ isValidRouteMode(b.mode) THEN { }
            ELSE { [field |-> "mode", index |-> -1] })

\* waypoints[k] in the handler: undefined past the end of the array
ElementAt(items, k) == IF k < Len(items) THEN items[k + 1] ELSE JsNoObject

\* the route the handler answers with: a fixed order, fixed totals in metres
\* and seconds, and two segments over the first three elements
FixedRoute(b) ==
    [kind |-> "optimized",
     waypoints |-> b.waypoints.items,
     optimizedOrder |-> << 0, 1, 2 >>,
     totalDistance |-> 1200,
     totalDuration |-> 720,
     mode |-> ModeOf(b),
     segments |->
         << [from |-> ElementAt(b.waypoints.items, 0),
             to |-> ElementAt(b.waypoints.items, 1),
             distance |-> 500, duration |-> 300],
            [from |-> ElementAt(b.waypoints.items, 1),
             to |-> ElementAt(b.waypoints.items, 2),
             distance |-> 700, duration |-> 420] >>]

\* a request to the route: the validation chains, validateRequest and the
\* handler
RouteOptimizeRequest(b) ==
    /\ mwpc = "idle"
    /\ routeRequest' = b
    /\ IF ValidationErrors(b) # { }
       THEN /\ sent' = Append(sent, Reply(400, "Validation failed"))
            /\ UNCHANGED nextBy
       ELSE /\ nextBy' = Append(nextBy, "validateRequest")
            /\ sent' = Append(sent, Ok(FixedRoute(b)))
    /\ mwpc' = "handlerDone"
    /\ UNCHANGED << validated, authHeader, jwtSecret, decoded, userResult,
                    reqUser, allowedRoles >>
    /\ UNCHANGED serviceVars

\* the request is over: the next one starts with a request object of its own
RequestEnd ==
    /\ mwpc \in { "authenticateDone", "authorizeDone", "handlerDone" }
    /\ mwpc' = "idle"
    /\ authHeader' = NoHeader
    /\ jwtSecret' = Undefined
    /\ decoded' = NoPayload
    /\ userResult' = NoRows
    /\ reqUser' = NoUser
    /\ allowedRoles' = { }
    /\ routeRequest' = NoRequest
    /\ sent' = << >>
    /\ nextBy' = << >>
    /\ UNCHANGED validated
    /\ UNCHANGED serviceVars

NextBoundary ==
    \/ \E lat \in CoordinateArguments, lng \in CoordinateArguments :
           IsValidCoordinatesCall(lat, lng)
    \/ \E h \in Headers, s \in { Undefined, "secret" } :
           AuthenticateCall(h, s)
    \/ \E id \in { 1, 2 } : \E r \in QueryResults(id) :
           AuthenticateUserResult(r)
    \/ \E ok \in BOOLEAN : AuthenticateUpdateDone(ok)
    \/ \E roles \in { { "admin" }, { "admin", "staff" }, { } } :
           AuthorizeCall(roles)
    \/ \E b \in RouteBodies : RouteOptimizeRequest(b)
    \/ RequestEnd

SpecBoundary == Init /\ [][NextBoundary]_vars


\* ------------------------------------------------------------------------
\* Properties
\* ------------------------------------------------------------------------
OptimizeDone == pc = "done" /\ op = "optimizeRoute"
CalculateDone == pc = "done" /\ op = "calculateRoute"

\* the indices that follow position k (1-based) of order
RestAfter(order, k) == { order[j] : j \in (k + 1)..Len(order) }

\* C1: for n >= 2 waypoints the returned optimizedOrder has length n,
\* contains every index 0..n-1 exactly once and starts with 0.
C1_Permutation ==
    OptimizeDone =>
        LET n == Len(result.waypoints)
            order == result.optimizedOrder
        IN  /\ n >= 2
            /\ Len(order) = n
            /\ order[1] = 0
            /\ \A x \in 0..(n - 1) :
                   Cardinality({ k \in 1..Len(order) : order[k] = x }) = 1

C1_Witness ==
    /\ OptimizeDone
    /\ Len(result.waypoints) = 3
    /\ result.optimizedOrder = << 0, 2, 1 >>

\* C2: at every position k of the returned order the next waypoint is a
\* nearest one among those not yet visited: no unvisited waypoint is
\* strictly nearer to order[k], and its distance is a number whenever the
\* distance to some unvisited waypoint is.
C2_GreedyStep ==
    OptimizeDone =>
        LET w == result.waypoints
            order == result.optimizedOrder
        IN  \A k \in 1..(Len(order) - 1) :
                LET cur == order[k]
                    dp == DistAt(w, cur, order[k + 1])
                IN  \A u \in RestAfter(order, k) :
                        /\ ~FLess(DistAt(w, cur, u), dp)
                        /\ (dp = NaN => DistAt(w, cur, u) = NaN)

C2_Witness ==
    /\ OptimizeDone
    /\ Len(result.waypoints) = 3
    /\ result.optimizedOrder = << 0, 2, 1 >>
    /\ FLess(DistAt(result.waypoints, 0, 2), DistAt(result.waypoints, 0, 1))

\* C3: among the unvisited waypoints that are exactly equidistant from the
\* current one at the minimum distance, the one with the lowest original
\* index is selected.
C3_TieBreak ==
    OptimizeDone =>
        LET w == result.waypoints
            order == result.optimizedOrder
        IN  \A k \in 1..(Len(order) - 1) :
                LET cur == order[k]
                    dp == DistAt(w, cur, order[k + 1])
                IN  \A u \in RestAfter(order, k) :
                        (dp # NaN /\ DistAt(w, cur, u) = dp)
                            => order[k + 1] <= u

C3_Witness ==
    /\ OptimizeDone
    /\ LET w == result.waypoints
           order == result.optimizedOrder
       IN  \E k \in 1..(Len(order) - 1) :
               \E u \in RestAfter(order, k) :
                   /\ u # order[k + 1]
                   /\ At(w, u) # At(w, order[k + 1])
                   /\ DistAt(w, order[k], u) # NaN
                   /\ DistAt(w, order[k], u) = DistAt(w, order[k], order[k + 1])
                   /\ order[k + 1] < u

\* C4: for exactly 2 waypoints the result has optimizedOrder [0, 1] and one
\* segment, from waypoints[0] to waypoints[1], whatever the coordinates.
C4_TwoWaypoints ==
    (OptimizeDone /\ Len(result.waypoints) = 2) =>
        /\ result.optimizedOrder = << 0, 1 >>
        /\ Len(result.segments) = 1
        /\ result.segments[1].from = At(result.waypoints, 0)
        /\ result.segments[1].to = At(result.waypoints, 1)

C4_Witness ==
    /\ OptimizeDone
    /\ Len(result.waypoints) = 2
    /\ At(result.waypoints, 0) # At(result.waypoints, 1)
    /\ Len(result.segments) = 1

\* the sum of field f of the segments, added in array order from 0
RECURSIVE SumOf(_, _, _)
SumOf(segs, f, k) ==
    IF k = 0 THEN Zero ELSE FAdd(SumOf(segs, f, k - 1), segs[k][f])

\* C5: totalDistance is the sum of the segments' distance fields and
\* totalDuration the sum of their rounded duration fields.
C5_Totals ==
    OptimizeDone =>
        /\ result.totalDistance
              = SumOf(result.segments, "distance", Len(result.segments))
        /\ result.totalDuration
              = SumOf(result.segments, "duration", Len(result.segments))

C5_Witness ==
    /\ OptimizeDone
    /\ Len(result.segments) = 2
    /\ \A k \in 1..2 : /\ result.segments[k].duration # NaN
                       /\ result.segments[k].duration.m > 0
                       /\ result.segments[k].distance.m > 0
    /\ result.totalDuration
          = FAdd(result.segments[1].duration, result.segments[2].duration)

\* C6: there are n-1 segments; segment i goes from waypoints[order[i]] to
\* waypoints[order[i+1]] with the estimator's distance and duration for that
\* pair in the requested mode, so each segment starts where the previous one
\* ends.
C6_Segments ==
    OptimizeDone =>
        LET w == result.waypoints
            order == result.optimizedOrder
            segs == result.segments
        IN  /\ Len(segs) = Len(w) - 1
            /\ \A k \in 1..Len(segs) :
                   /\ segs[k].from = At(w, order[k])
                   /\ segs[k].to = At(w, order[k + 1])
                   /\ segs[k].distance
                         = ToMeters(calculateDistance(At(w, order[k]),
                                                      At(w, order[k + 1])))
                   /\ segs[k].duration
                         = estimateDuration(At(w, order[k]),
                                            At(w, order[k + 1]), result.mode)
                   /\ (k < Len(segs) => segs[k].to = segs[k + 1].from)

C6_Witness ==
    /\ OptimizeDone
    /\ result.mode = "driving"
    /\ result.optimizedOrder = << 0, 2, 1 >>
    /\ Len(result.segments) = 2
    /\ result.segments[1].to = At(result.waypoints, 2)
    /\ result.segments[2].from = At(result.waypoints, 2)
    /\ At(result.waypoints, 1) # At(result.waypoints, 2)

\* C7: calculateRoute(A, A, mode) returns a route of distance 0 and
\* duration 0 and no error.
C7_ZeroSelf ==
    (pc = "done" /\ op = "calculateRoute"
        /\ result.origin = result.destination) =>
            /\ result.kind = "route"
            /\ result.distance = Zero
            /\ result.duration = Zero

C7_Witness ==
    /\ CalculateDone
    /\ result.origin = PointSeq[4]
    /\ result.destination = PointSeq[4]
    /\ result.mode = "driving"
    /\ result.distance = Zero

\* C8: the distance and the duration returned for (A, B) are those computed
\* for (B, A).
C8_Symmetry ==
    CalculateDone =>
        /\ result.distance
              = ToMeters(calculateDistance(result.destination, result.origin))
        /\ result.duration
              = estimateDuration(result.destination, result.origin,
                                 result.mode)

C8_Witness ==
    /\ CalculateDone
    /\ result.origin.lat # result.destination.lat
    /\ result.origin.lng # result.destination.lng
    /\ result.distance # NaN
    /\ result.distance.m > 0

\* the speed table of the data model, km/h
SpeedOf(m) ==
    CASE m = "walking" -> 5
      [] m = "cycling" -> 15
      [] m = "driving" -> 30

\* x is a whole number, and not NaN
IsWhole(x) ==
    /\ x.k = "num"
    /\ \/ x.m = 0
       \/ x.e >= 0
       \/ (-x.e <= Precision /\ x.m % (2 ^ (-x.e)) = 0)

\* d is the whole number of seconds nearest to h hours
IsRoundOfHours(d, h) ==
    /\ IsWhole(d)
    /\ d.m >= 0
    /\ d = MathRound(FMul(h, Num(3600)))

\* C9: the duration of every segment is a whole number of seconds equal to
\* round(distanceKm / speed * 3600) with speed 5, 15, 30 for walking,
\* cycling, driving, computed from the unrounded kilometre distance.
C9_DurationFormula ==
    OptimizeDone =>
        \A k \in 1..Len(result.segments) :
            LET seg == result.segments[k]
            IN  IsRoundOfHours(seg.duration,
                               HoursOf(calculateDistance(seg.from, seg.to),
                                       SpeedOf(result.mode)))

\* C10: the driving duration of a pair is <= its walking duration, and both
\* are 0 when the distance is 0.
C10_DrivingNotSlower ==
    CalculateDone =>
        LET o == result.origin
            d == result.destination
        IN  /\ result.mode = "driving"
                => FLessEq(result.duration, estimateDuration(o, d, "walking"))
            /\ result.mode = "walking"
                => FLessEq(estimateDuration(o, d, "driving"), result.duration)
            /\ result.distance = Zero => result.duration = Zero


\* C11: for the three campus waypoints and mode walking optimizeRoute
\* returns optimizedOrder [0, 2, 1], waypoint 2 being nearer to waypoint 0
\* than waypoint 1 is.
C11_CampusOrder ==
    (OptimizeDone /\ result.waypoints = CampusWaypoints
        /\ result.mode = "walking") =>
            /\ result.optimizedOrder = << 0, 2, 1 >>
            /\ FLess(DistAt(CampusWaypoints, 0, 2),
                     DistAt(CampusWaypoints, 0, 1))

C11_Witness ==
    /\ OptimizeDone
    /\ result.waypoints = CampusWaypoints
    /\ result.mode = "walking"
    /\ result.optimizedOrder = << 0, 2, 1 >>
    /\ Len(result.segments) = 2

\* the order nearestNeighborOptimization builds from route and unvisited
RECURSIVE OrderFrom(_, _, _)
OrderFrom(w, unv, r) ==
    IF Len(unv) = 0 THEN r
    ELSE LET nearest == ScanUnvisited(w, r[Len(r)], unv, 0, 0, Infinity)
         IN  OrderFrom(w, Splice(unv, nearest), Append(r, unv[nearest + 1]))

\* the first k segments of order
RECURSIVE SegmentsOf(_, _, _, _)
SegmentsOf(w, order, m, k) ==
    IF k = 0 THEN << >>
    ELSE Append(SegmentsOf(w, order, m, k - 1),
                [from |-> At(w, order[k]),
                 to |-> At(w, order[k + 1]),
                 distance |-> ToMeters(calculateDistance(At(w, order[k]),
                                                         At(w, order[k + 1]))),
                 duration |-> estimateDuration(At(w, order[k]),
                                               At(w, order[k + 1]), m)])

\* what optimizeRoute(w, m) gives as a function of w and m alone
OptimizeRouteAlone(w, m) ==
    IF Len(w) < 2
    THEN [kind |-> "error", message |-> "Failed to optimize route"]
    ELSE LET order == OrderFrom(w, [k \in 1..(Len(w) - 1) |-> k], << 0 >>)
             segs == SegmentsOf(w, order, m, Len(w) - 1)
         IN  [kind |-> "optimized",
              waypoints |-> w,
              optimizedOrder |-> order,
              totalDistance |-> SumOf(segs, "distance", Len(segs)),
              totalDuration |-> SumOf(segs, "duration", Len(segs)),
              mode |-> m,
              segments |-> segs]

\* what a call gives as a function of its arguments alone
AloneResult(call) ==
    IF call.op = "optimizeRoute"
    THEN OptimizeRouteAlone(call.waypoints, call.mode)
    ELSE mockRoute(call.origin, call.destination, call.mode,
                   call.accessibility)

\* C12: the result of a finished call of optimizeRoute or calculateRoute is
\* a function of its arguments only: whatever the provider keys of the
\* environment are and whatever calls were made before, it is the value
\* computed from the waypoints or coordinates and the mode, so two calls
\* with the same arguments return identical results.
C12_Deterministic ==
    pc \in { "done", "thrown" } => result = AloneResult(ThisCall)

C12_Witness ==
    /\ OptimizeDone
    /\ mapboxApiKey # Undefined
    /\ Len(result.segments) = 2
    /\ result.totalDistance.m > 0
    /\ result = OptimizeRouteAlone(waypoints, mode)

\* a place that is an object with numbers in [-90, 90] and [-180, 180]
WithinRange(place) ==
    /\ place.type = "object"
    /\ place.lat.type = "number"
    /\ place.lng.type = "number"
    /\ ~place.lat.nan
    /\ ~place.lng.nan
    /\ place.lat.value \in (-90 * CoordUnit)..(90 * CoordUnit)
    /\ place.lng.value \in (-180 * CoordUnit)..(180 * CoordUnit)

\* the mode the handler works with is walking, driving or cycling
HasValidMode(body) ==
    body.mode \in { Undefined, "walking", "driving", "cycling" }

\* a body that RoutesController.optimizeRoute has to accept
IsValidOptimizeBody(body) ==
    /\ body.waypoints.type = "array"
    /\ Len(body.waypoints.items) \in 2..10
    /\ \A k \in 1..Len(body.waypoints.items) :
           WithinRange(body.waypoints.items[k])
    /\ HasValidMode(body)

\* what does hold of RoutesController.optimizeRoute: the service is invoked
\* only after the three checks, on a body that passes them; a check that
\* fails is answered with its own 400; a response without invocation that
\* is not a 400 is the 500 of a null waypoint
ValidationPrecedesInvocation ==
    handler = "optimizeRoute" =>
        /\ invoked => /\ checks = { "waypoints", "coordinates", "mode" }
                      /\ IsValidOptimizeBody(request)
        /\ pc # "idle" => invoked
        /\ response.status = 400 => ~invoked
        /\ (cpc = "sent" /\ checks # { "waypoints", "coordinates", "mode" })
              => (~invoked /\ response.status \in { 400, 500 })
        /\ (cpc = "sent" /\ "waypoints" \notin checks)
              => response = BadRequest("INVALID_WAYPOINTS", -1)
        /\ (cpc = "sent" /\ checks = { "waypoints" }
              /\ response.status = 400)
              => /\ response.error = "INVALID_WAYPOINT_COORDINATES"
                 /\ ~WithinRange(request.waypoints.items[response.waypoint + 1])
        /\ (cpc = "sent" /\ checks = { "waypoints", "coordinates" })
              => response = BadRequest("INVALID_ROUTE_MODE", -1)
        /\ (cpc = "sent" /\ response.status = 500 /\ ~invoked)
              => \E k \in 1..Len(request.waypoints.items) :
                     request.waypoints.items[k].type = "null"

\* C13: in RoutesController.optimizeRoute the service is invoked only after
\* the waypoints were checked to be an array of length 2..10, every waypoint
\* passed the coordinate check and the mode was checked; a request that
\* does not pass the three checks is answered with 400 and the service is
\* never invoked for it.
C13_ValidationFirst ==
    handler = "optimizeRoute" =>
        /\ invoked => /\ checks = { "waypoints", "coordinates", "mode" }
                      /\ IsValidOptimizeBody(request)
        /\ pc # "idle" => invoked
        /\ (cpc = "sent" /\ checks # { "waypoints", "coordinates", "mode" })
              => (~invoked /\ response.status = 400)

\* C14: in RoutesController.getDirections calculateRoute is invoked only if
\* origin and destination are both present and in range and the mode is
\* valid; if either fails the range check the request is answered with 400
\* and calculateRoute is not invoked.
C14_DirectionsValidationFirst ==
    handler = "getDirections" =>
        /\ invoked => /\ checks = { "origin", "destination", "mode" }
                      /\ WithinRange(request.origin)
                      /\ WithinRange(request.destination)
                      /\ HasValidMode(request)
        /\ pc # "idle" => invoked
        /\ response.status = 400 => ~invoked
        /\ (cpc \in { "await", "sent" }
              /\ (~WithinRange(request.origin)
                    \/ ~WithinRange(request.destination)))
              => (~invoked /\ cpc = "sent" /\ response.status = 400
                    /\ response.error
                         = IF ~WithinRange(request.origin)
                           THEN "INVALID_ORIGIN_COORDINATES"
                           ELSE "INVALID_DESTINATION_COORDINATES")

C14_Witness ==
    /\ handler = "getDirections"
    /\ cpc = "await"
    /\ invoked
    /\ pc = "done"
    /\ result.kind = "route"
    /\ result.origin # result.destination
    /\ checks = { "origin", "destination", "mode" }

\* order holds every index 0..n-1 exactly once
IsPermutation(order, n) ==
    /\ Len(order) = n
    /\ \A x \in 0..(n - 1) :
           Cardinality({ k \in 1..Len(order) : order[k] = x }) = 1

\* C15: a call of optimizeRoute either returns a complete result (an order
\* with all n indices, n-1 segments and both totals) or throws an error and
\* returns nothing; while it runs there is no result; a list with fewer than
\* 2 waypoints makes it throw before any ordering or segment is computed.
C15_NoPartialResults ==
    op = "optimizeRoute" =>
        /\ pc \in { "nn", "seg" } => result = NoResult
        /\ pc = "done" =>
              /\ Len(waypoints) >= 2
              /\ DOMAIN result
                    = { "kind", "waypoints", "optimizedOrder", "totalDistance",
                        "totalDuration", "mode", "segments" }
              /\ result.kind = "optimized"
              /\ IsPermutation(result.optimizedOrder, Len(waypoints))
              /\ Len(result.segments) = Len(waypoints) - 1
        /\ pc = "thrown" =>
              /\ result = [kind |-> "error",
                           message |-> "Failed to optimize route"]
              /\ Len(waypoints) < 2
              /\ route = << >>
              /\ optimizedOrder = << >>
              /\ segments = << >>
              /\ iterations = 0
              /\ orderingEvaluations + segmentEvaluations = 0
        /\ Len(waypoints) < 2 => pc = "thrown"

C15_Witness ==
    /\ op = "optimizeRoute"
    /\ pc = "thrown"
    /\ Len(waypoints) = 1
    /\ result.kind = "error"

\* the controller answers a waypoints value that is no array of 2 to 10
\* elements with 400 INVALID_WAYPOINTS and does not invoke the service
BoundaryEnforcesRange ==
    (handler = "optimizeRoute" /\ cpc \in { "coordinates", "mode", "invoke",
                                           "await", "sent" }
        /\ (request.waypoints.type # "array"
              \/ Len(request.waypoints.items) \notin 2..10))
        => /\ cpc = "sent"
           /\ response = BadRequest("INVALID_WAYPOINTS", -1)
           /\ ~invoked

\* C16 as stated: the range [2, 10] is enforced by the controller with 400
\* INVALID_WAYPOINTS, and RoutingService.optimizeRoute performs no length
\* check: no call of it is refused for the length of its list.
C16_NoLengthCheckInPlanner ==
    /\ BoundaryEnforcesRange
    /\ op = "optimizeRoute" => pc # "thrown"

\* C16 amended: the range [2, 10] is enforced by the controller with 400
\* INVALID_WAYPOINTS; RoutingService.optimizeRoute checks the lower bound
\* itself, throwing exactly when the list has fewer than 2 waypoints, and has
\* no upper bound: a list of more than 10 waypoints is optimized.
C16_LowerBoundInPlanner ==
    /\ BoundaryEnforcesRange
    /\ op = "optimizeRoute" => (pc = "thrown" <=> Len(waypoints) < 2)

C16_Witness ==
    /\ OptimizeDone
    /\ handler = "none"
    /\ Len(result.waypoints) = 11
    /\ Len(result.segments) = 10

\* C17: for a list of n <= 10 waypoints one call of optimizeRoute performs
\* at most 100 distance evaluations, ordering loop and segment loop
\* together, and at most n * n of them in the ordering loop.
C17_BoundedWork ==
    (op = "optimizeRoute" /\ Len(waypoints) <= 10) =>
        /\ orderingEvaluations + segmentEvaluations <= 100
        /\ orderingEvaluations <= Len(waypoints) * Len(waypoints)

C17_Witness ==
    /\ OptimizeDone
    /\ Len(waypoints) = 10
    /\ orderingEvaluations = 45
    /\ segmentEvaluations = 18

\* a list of 4 waypoints the greedy order is not shortest for
SuboptimalWaypoints == LongList(4)

\* C18: for the list SuboptimalWaypoints the total distance of the returned
\* order is strictly greater than the total distance of another visiting
\* order that starts at index 0.
C18_NotOptimal ==
    (OptimizeDone /\ result.waypoints = SuboptimalWaypoints) =>
        \E o \in StartingOrders(Len(SuboptimalWaypoints)) :
            /\ o # result.optimizedOrder
            /\ FLess(RouteLength(SuboptimalWaypoints, o,
                                 Len(SuboptimalWaypoints)),
                     result.totalDistance)

C18_Witness ==
    /\ OptimizeDone
    /\ result.waypoints = SuboptimalWaypoints
    /\ result.optimizedOrder = << 0, 3, 1, 2 >>
    /\ FLess(RouteLength(SuboptimalWaypoints, << 0, 1, 3, 2 >>, 4),
             result.totalDistance)

\* C19: whatever calls run between the return of a call's promise and the
\* continuation of its caller, the call's result is the one it gives when
\* run alone; no step writes a field of the shared instance.
C19_Independent ==
    /\ pc \in { "done", "thrown" } => result = AloneResult(ThisCall)
    /\ \A k \in 1..Len(pending) : pending[k].result = AloneResult(pending[k])
    /\ delivered # NoCall => delivered.result = AloneResult(delivered)

C19_Witness ==
    /\ Len(pending) = 1
    /\ pending[1].op = "optimizeRoute"
    /\ pending[1].result.kind = "optimized"
    /\ pending[1].mode = "walking"
    /\ OptimizeDone
    /\ mode = "driving"
    /\ waypoints # pending[1].waypoints

\* the indices of a list
Indices(s) == { s[k] : k \in 1..Len(s) }

\* one iteration moves exactly one index from unvisited to the end of route
MovesOneIndex ==
    \E x \in Indices(unvisited) :
        /\ route' = Append(route, x)
        /\ Len(unvisited') = Len(unvisited) - 1
        /\ Indices(unvisited') = Indices(unvisited) \ { x }
        /\ iterations' = iterations + 1

\* C20: for a list of n >= 2 waypoints the ordering loop terminates, after
\* exactly n-1 iterations, each moving exactly one index from the unvisited
\* list to the route, and it ends with the unvisited list empty.
C20_Termination ==
    /\ [][(pc = "nn" /\ pc' = "nn") => MovesOneIndex]_vars
    /\ [][(pc = "nn" /\ pc' = "seg")
            => (unvisited = << >> /\ iterations = Len(waypoints) - 1
                  /\ optimizedOrder' = route)]_vars
    /\ [](pc = "nn" => Len(route) + Len(unvisited) = Len(waypoints))
    /\ (pc = "nn") ~> (pc = "seg")

C20_Witness ==
    /\ pc = "seg"
    /\ Len(waypoints) = 10
    /\ iterations = 9
    /\ unvisited = << >>
    /\ Len(optimizedOrder) = 10

\* ------------------------------------------------------------------------
\* The coordinate validator
\* ------------------------------------------------------------------------
\* x is a number that is not NaN and lies in [min, max] degrees, both bounds
\* included
IsNumberWithin(x, min, max) ==
    /\ x.type = "number"
    /\ ~x.nan
    /\ x.value \in (min * CoordUnit)..(max * CoordUnit)

\* C21: isValidCoordinates(lat, lng) returns true exactly when both arguments
\* are numbers that are not NaN with -90 <= lat <= 90 and -180 <= lng <= 180,
\* the four bounds included; it returns false for every other input, numeric
\* strings included.
C21_IsValidCoordinates ==
    validated # NoValidation =>
        /\ validated.returned
              <=> /\ IsNumberWithin(validated.lat, -90, 90)
                  /\ IsNumberWithin(validated.lng, -180, 180)
        /\ (validated.lat.type = "string" \/ validated.lng.type = "string")
              => ~validated.returned

C21_Witness ==
    /\ validated.returned
    /\ validated.lat = JsNumber(90 * CoordUnit)
    /\ validated.lng = JsNumber(-180 * CoordUnit)

\* ------------------------------------------------------------------------
\* The ordering loop and the input of optimizeRoute
\* ------------------------------------------------------------------------
\* C22: loop invariant of nearestNeighborOptimization: at the start of every
\* iteration the route and the unvisited list are disjoint, together they
\* hold every index 0..n-1 exactly once, route[0] is 0, and the unvisited
\* list is in strictly ascending index order.
C22_LoopInvariant ==
    (op = "optimizeRoute" /\ pc = "nn") =>
        /\ Indices(route) \cap Indices(unvisited) = { }
        /\ IsPermutation(route \o unvisited, Len(waypoints))
        /\ route[1] = 0
        /\ \A k \in 1..(Len(unvisited) - 1) : unvisited[k] < unvisited[k + 1]

C22_Witness ==
    /\ op = "optimizeRoute"
    /\ pc = "nn"
    /\ Len(route) >= 2
    /\ Len(unvisited) >= 2
    /\ route[Len(route)] > unvisited[1]

\* C23: optimizeRoute leaves its input unchanged: from the call to its return
\* the waypoints array keeps its length, its elements and their order, and
\* the waypoints field of the result is that input in its original order,
\* not the optimized one.
C23_InputUnchanged ==
    /\ [][(op = "optimizeRoute" /\ pc \in { "nn", "seg" })
             => waypoints' = waypoints]_vars
    /\ [](OptimizeDone => result.waypoints = waypoints)
    /\ []((handler = "optimizeRoute" /\ cpc = "sent" /\ response.status = 200)
             => response.route.waypoints
                    = ToCoordinateList(request.waypoints.items))

C23_Witness ==
    /\ OptimizeDone
    /\ result.optimizedOrder[2] # 1
    /\ result.waypoints = waypoints
    /\ iterations = Len(waypoints) - 1

\* every unvisited candidate is at a NaN distance from the current waypoint
AllCandidatesNaN ==
    /\ Len(unvisited) > 0
    /\ \A k \in 1..Len(unvisited) :
           IsNaN(DistAt(waypoints, route[Len(route)], unvisited[k]))

\* C24: the permutation does not depend on comparable distances: when the
\* distance from the current waypoint to every unvisited candidate is NaN,
\* the iteration selects the first remaining unvisited index, the loop still
\* terminates, and the order returned holds every index 0..n-1 exactly once.
C24_NaNCandidates ==
    /\ [][(pc = "nn" /\ AllCandidatesNaN)
             => (route' = Append(route, unvisited[1])
                   /\ unvisited' = Tail(unvisited))]_vars
    /\ (pc = "nn" /\ AllCandidatesNaN)
          ~> (pc = "seg" /\ IsPermutation(optimizedOrder, Len(waypoints)))

C24_Witness ==
    /\ pc = "nn"
    /\ Len(route) = 2
    /\ Len(unvisited) = 1
    /\ route[2] < unvisited[1]
    /\ IsNaN(DistAt(waypoints, 0, route[2]))
    /\ IsNaN(DistAt(waypoints, 0, unvisited[1]))

\* ------------------------------------------------------------------------
\* The order of the checks of the controller
\* ------------------------------------------------------------------------
\* the 1-based position of the first element whose coordinates are invalid
LowestInvalid(items) ==
    CHOOSE k \in 1..Len(items) :
        /\ ~WithinRange(items[k])
        /\ \A j \in 1..(k - 1) : WithinRange(items[j])

\* the response to a body that fails a check, by the order of the checks; a
\* null element is answered as the catch block answers it, or as an element
\* with invalid coordinates
RejectionOf(body, nullThrows) ==
    IF ~(body.waypoints.type = "array" /\ Len(body.waypoints.items) \in 2..10)
    THEN BadRequest("INVALID_WAYPOINTS", -1)
    ELSE IF \E k \in 1..Len(body.waypoints.items) :
                ~WithinRange(body.waypoints.items[k])
    THEN IF nullThrows
              /\ body.waypoints.items[LowestInvalid(body.waypoints.items)].type
                    = "null"
         THEN ServerError("ROUTE_OPTIMIZATION_ERROR")
         ELSE BadRequest("INVALID_WAYPOINT_COORDINATES",
                         LowestInvalid(body.waypoints.items) - 1)
    ELSE BadRequest("INVALID_ROUTE_MODE", -1)

\* what does hold of the order of the checks: the first failed check decides
\* the response, a null element being answered with 500
PrecedenceOfChecks ==
    (handler = "optimizeRoute" /\ cpc = "sent") =>
        IF IsValidOptimizeBody(request)
        THEN response.status = 200
        ELSE response = RejectionOf(request, TRUE)

\* C25: error precedence in RoutesController.optimizeRoute: a request with
\* several defects gets exactly one 400 response, with INVALID_WAYPOINTS if
\* the list is not an array of length 2..10, otherwise with
\* INVALID_WAYPOINT_COORDINATES and the lowest index whose coordinates are
\* invalid, otherwise with INVALID_ROUTE_MODE; a failure thrown by the
\* service yields 500 ROUTE_OPTIMIZATION_ERROR.
C25_ErrorPrecedence ==
    (handler = "optimizeRoute" /\ cpc = "sent") =>
        IF IsValidOptimizeBody(request)
        THEN \/ response.status = 200
             \/ /\ result.kind = "error"
                /\ response = ServerError("ROUTE_OPTIMIZATION_ERROR")
        ELSE response = RejectionOf(request, FALSE)

\* ------------------------------------------------------------------------
\* The route POST /api/routes/optimize
\* ------------------------------------------------------------------------
\* C26: for every request the validators of POST /api/routes/optimize accept
\* (an array of 2 to 10 waypoints with in-range coordinates) the handler's
\* response has an optimizedOrder that is a permutation of 0..n-1 for the n
\* submitted waypoints, and every segment's from and to is one of the
\* submitted waypoints.
C26_HandlerPermutation ==
    (mwpc = "handlerDone" /\ nextBy = << "validateRequest" >>) =>
        /\ Len(sent) = 1
        /\ sent[1].status = 200
        /\ IsPermutation(sent[1].route.optimizedOrder,
                         Len(routeRequest.waypoints.items))
        /\ \A k \in 1..Len(sent[1].route.segments) :
               /\ sent[1].route.segments[k].from
                     \in Indices(routeRequest.waypoints.items)
               /\ sent[1].route.segments[k].to
                     \in Indices(routeRequest.waypoints.items)

\* ------------------------------------------------------------------------
\* authenticate and authorize
\* ------------------------------------------------------------------------
\* the token of the request verifies, the users query returned the row of
\* the token's id, and that user is active
IsAuthenticUser ==
    /\ jwtSecret # Undefined
    /\ JwtVerify(TokenOf(authHeader)).threw = "none"
    /\ ~userResult.error
    /\ Len(userResult.rows) = 1
    /\ userResult.rows[1].id = TokenOf(authHeader).id
    /\ userResult.rows[1].is_active

\* C27: authenticate calls next() only when the token verifies, a user row
\* with the token's id exists and that user is active; on every other path
\* (missing header, empty token, missing JWT_SECRET, verification failure,
\* unknown user, deactivated user, database error) it sends exactly one 401
\* or 500 response and never calls next().
C27_AuthenticateGate ==
    /\ "authenticate" \in Indices(nextBy) => IsAuthenticUser
    /\ mwpc \in { "userQuery", "updateLogin" }
          => (sent = << >> /\ nextBy = << >>)
    /\ mwpc = "authenticateDone" =>
          IF nextBy # << >>
          THEN nextBy = << "authenticate" >> /\ sent = << >>
          ELSE Len(sent) = 1 /\ sent[1].status \in { 401, 500 }
    /\ (mwpc = "authenticateDone" /\ ~IsAuthenticUser)
          => (nextBy = << >> /\ Len(sent) = 1)

C27_Witness ==
    /\ mwpc = "authenticateDone"
    /\ nextBy = << "authenticate" >>
    /\ authHeader.scheme = "Bearer "
    /\ reqUser = [id |-> 2, role |-> "admin"]
    /\ sent = << >>

\* C28: when the verification of the token fails because the token has
\* expired the response is 401 with the error code TOKEN_EXPIRED, distinct
\* from the INVALID_TOKEN code sent for a malformed or wrongly signed token.
C28_ExpiredTokenCode ==
    (mwpc = "authenticateDone" /\ jwtSecret # Undefined) =>
        /\ TokenOf(authHeader).kind = "expired"
              => sent = << Reply(401, "TOKEN_EXPIRED") >>
        /\ TokenOf(authHeader).kind \in { "malformed", "wrongSignature" }
              => sent = << Reply(401, "INVALID_TOKEN") >>

\* C29: the middleware authorize(allowedRoles) returns calls next() exactly
\* when req.user is set and its role is a member of allowedRoles; it
\* responds 401 AUTHENTICATION_REQUIRED when req.user is absent and 403
\* INSUFFICIENT_PERMISSIONS when the role is not allowed, and in those two
\* cases it never calls next().
C29_AuthorizeGate ==
    mwpc = "authorizeDone" =>
        /\ "authorize" \in Indices(nextBy)
              <=> (reqUser # NoUser /\ reqUser.role \in allowedRoles)
        /\ "authorize" \in Indices(nextBy) => sent = << >>
        /\ reqUser = NoUser
              => /\ sent = << Reply(401, "AUTHENTICATION_REQUIRED") >>
                 /\ "authorize" \notin Indices(nextBy)
        /\ (reqUser # NoUser /\ reqUser.role \notin allowedRoles)
              => /\ sent = << Reply(403, "INSUFFICIENT_PERMISSIONS") >>
                 /\ "authorize" \notin Indices(nextBy)

C29_Witness ==
    /\ mwpc = "authorizeDone"
    /\ nextBy = << "authenticate", "authorize" >>
    /\ reqUser.role = "staff"
    /\ allowedRoles = { "admin", "staff" }

====
